---------------------------- MODULE Spec2Model ----------------------------
(***************************************************************************)
(* Model of the P&L engine of src/logic.py: prepare_mappings and           *)
(* calculate_pnl (matcher, accumulation, derivation, overrides, rows),     *)
(* process_upload (format detection, column reconciliation, cleaning,      *)
(* payroll override) and calculate_forecast.                               *)
(*                                                                         *)
(* Text is a sequence of one-character strings.  Amounts are integers in   *)
(* a unit in which every amount of the pools is a multiple of RateDen, so  *)
(* that the 17.65% fee is exact; float rounding and non-finite floats are  *)
(* outside the model.  A month is a positive integer, 0 is NaT.            *)
(***************************************************************************)
EXTENDS Integers, Sequences, FiniteSets, TLC

VARIABLES df, mappings, overrides, columns, start_date, end_date,
          pc, filtered_df, month_strs, line_values,
          specific_mappings, generic_mappings,
          i, matched_mapping, raised, j, lv_derived, headers, rows,
          Valor, Tipo, Valor_Num, file_content, table, error, calls,
          previous, months_ahead, models, response,
          drill_line_number, drill_month, line_mapping, transactions, total

vars == <<df, mappings, overrides, columns, start_date, end_date,
          pc, filtered_df, month_strs, line_values,
          specific_mappings, generic_mappings,
          i, matched_mapping, raised, j, lv_derived, headers, rows,
          Valor, Tipo, Valor_Num, file_content, table, error, calls,
          previous, months_ahead, models, response,
          drill_line_number, drill_month, line_mapping, transactions, total>>

inputs == <<df, mappings, overrides, columns, start_date, end_date>>

\* the state of the callers of calculate_pnl and of the value parser
\* the request and the locals of get_pnl_line_transactions
drill == <<drill_line_number, drill_month, line_mapping, transactions, total>>

callers == <<Valor, Tipo, Valor_Num, file_content, table, error, calls,
             previous, months_ahead, models, response, drill>>

(***************************************************************************)
(* Bounds and program constants                                            *)
(***************************************************************************)
MaxTx == 2

MaxRules == 3

MaxLine == 120

RateNum == 1765

RateDen == 10000

FINAL_LINES == {100, 106, 111}

(***************************************************************************)
(* Text normalizer                                                         *)
(***************************************************************************)
NaN == <<"NaN">>

NaT == 0

IsSpace(ch) == ch = " "

RECURSIVE LStrip(_)
LStrip(s) ==
  IF s # <<>> /\ IsSpace(Head(s)) THEN LStrip(Tail(s)) ELSE s

RECURSIVE RStrip(_)
RStrip(s) ==
  IF s # <<>> /\ IsSpace(s[Len(s)]) THEN RStrip(SubSeq(s, 1, Len(s) - 1)) ELSE s

Strip(s) == RStrip(LStrip(s))

\* str.lower() on the alphabet of the model
Lower(ch) ==
  CASE ch = "A" -> "a"
    [] ch = "B" -> "b"
    [] ch = "C" -> "c"
    [] ch = "D" -> "d"
    [] ch = "E" -> "e"
    [] ch = "F" -> "f"
    [] ch = "G" -> "g"
    [] ch = "H" -> "h"
    [] ch = "I" -> "i"
    [] ch = "J" -> "j"
    [] ch = "K" -> "k"
    [] ch = "L" -> "l"
    [] ch = "M" -> "m"
    [] ch = "N" -> "n"
    [] ch = "O" -> "o"
    [] ch = "P" -> "p"
    [] ch = "Q" -> "q"
    [] ch = "R" -> "r"
    [] ch = "S" -> "s"
    [] ch = "T" -> "t"
    [] ch = "U" -> "u"
    [] ch = "V" -> "v"
    [] ch = "W" -> "w"
    [] ch = "X" -> "x"
    [] ch = "Y" -> "y"
    [] ch = "Z" -> "z"
    [] ch = "Á" -> "á"
    [] ch = "Ã" -> "ã"
    [] ch = "Ç" -> "ç"
    [] ch = "É" -> "é"
    [] ch = "Í" -> "í"
    [] ch = "Ó" -> "ó"
    [] ch = "Õ" -> "õ"
    [] OTHER -> ch

\* NFKD decomposition followed by the removal of combining marks
StripAccent(ch) ==
  CASE ch = "á" -> "a"
    [] ch = "ã" -> "a"
    [] ch = "â" -> "a"
    [] ch = "ç" -> "c"
    [] ch = "é" -> "e"
    [] ch = "ê" -> "e"
    [] ch = "í" -> "i"
    [] ch = "ó" -> "o"
    [] ch = "õ" -> "o"
    [] ch = "ú" -> "u"
    [] OTHER -> ch

normalize_text_helper(s) ==
  IF s = NaN THEN <<>>
  ELSE LET t == Strip(s)
       IN  [k \in 1..Len(t) |-> StripAccent(Lower(t[k]))]

\* Python's `pat in text` on strings
Contains(pat, text) ==
  \E k \in 0..(Len(text) - Len(pat)) : SubSeq(text, k + 1, k + Len(pat)) = pat

fillna(s) == IF s = NaN THEN <<>> ELSE s

\* (supp_norm + " " + desc_norm).str.strip(); a table without the column
\* 'Descrição' gets an empty one
MatchText(cols, row) ==
  LET desc == IF "Descrição" \in cols THEN fillna(row.descricao) ELSE <<>>
  IN  Strip(normalize_text_helper(fillna(row.fornecedor)) \o <<" ">>
            \o normalize_text_helper(desc))

(***************************************************************************)
(* int(linha_pl), int(line_str)                                            *)
(***************************************************************************)
Digits == {"0", "1", "2", "3", "4", "5", "6", "7", "8", "9"}

DigitVal(ch) ==
  CASE ch = "0" -> 0 [] ch = "1" -> 1 [] ch = "2" -> 2 [] ch = "3" -> 3
    [] ch = "4" -> 4 [] ch = "5" -> 5 [] ch = "6" -> 6 [] ch = "7" -> 7
    [] ch = "8" -> 8 [] ch = "9" -> 9

RECURSIVE DigitsValue(_)
DigitsValue(s) ==
  IF s = <<>> THEN 0
  ELSE 10 * DigitsValue(SubSeq(s, 1, Len(s) - 1)) + DigitVal(s[Len(s)])

AllDigits(s) == s # <<>> /\ \A k \in 1..Len(s) : s[k] \in Digits

\* int(s): surrounding blanks and one sign are accepted, anything else is a
\* ValueError (ok = FALSE)
IntOf(s) ==
  LET t == Strip(s)
      signed == t # <<>> /\ t[1] \in {"+", "-"}
      body == IF signed THEN Tail(t) ELSE t
  IN  IF AllDigits(body)
      THEN [ok |-> TRUE,
            v |-> IF signed /\ t[1] = "-" THEN 0 - DigitsValue(body)
                  ELSE DigitsValue(body)]
      ELSE [ok |-> FALSE, v |-> 0]

(***************************************************************************)
(* prepare_mappings                                                        *)
(***************************************************************************)
SuppNorm(m) == normalize_text_helper(m.fornecedor_cliente)

CcNorm(m) == normalize_text_helper(m.centro_custo)

diversos == <<"d", "i", "v", "e", "r", "s", "o", "s">>

IsSpecific(m) == SuppNorm(m) # <<>> /\ SuppNorm(m) # diversos

\* the position at which list.sort(key=len, reverse=True), which is stable,
\* leaves m when it is inserted after the already sorted prefix
RECURSIVE InsertByLen(_, _)
InsertByLen(sorted, m) ==
  IF sorted = <<>> THEN <<m>>
  ELSE IF Len(SuppNorm(Head(sorted))) >= Len(SuppNorm(m))
       THEN <<Head(sorted)>> \o InsertByLen(Tail(sorted), m)
       ELSE <<m>> \o sorted

\* the sort left out: the rules stay in list order
SortByLenDesc_ListOrder(ms) == ms

RECURSIVE SortByLenDesc(_)
SortByLenDesc(ms) ==
  IF ms = <<>> THEN <<>>
  ELSE InsertByLen(SortByLenDesc(SubSeq(ms, 1, Len(ms) - 1)), ms[Len(ms)])

SpecificKeys(ms) == {CcNorm(ms[k]) : k \in {n \in 1..Len(ms) : IsSpecific(ms[n])}}

GenericKeys(ms) == {CcNorm(ms[k]) : k \in {n \in 1..Len(ms) : ~IsSpecific(ms[n])}}

IsSpecificOf(cc, m) == IsSpecific(m) /\ CcNorm(m) = cc

SpecificByCc(ms) ==
  [cc \in SpecificKeys(ms) |->
     SortByLenDesc(SelectSeq(ms, LAMBDA m : IsSpecificOf(cc, m)))]

\* generic_by_cc[cc] = m: the last generic rule of a cost center stays
GenericByCc(ms) ==
  [cc \in GenericKeys(ms) |->
     LET last == CHOOSE n \in 1..Len(ms) :
                   /\ ~IsSpecific(ms[n]) /\ CcNorm(ms[n]) = cc
                   /\ \A n2 \in (n + 1)..Len(ms) :
                        IsSpecific(ms[n2]) \/ CcNorm(ms[n2]) # cc
     IN  ms[last]]

(***************************************************************************)
(* The matcher of calculate_pnl.  An optional rule is <<>> or <<rule>>.    *)
(***************************************************************************)
RECURSIVE FirstMatch(_, _)
FirstMatch(candidates, match_text) ==
  IF candidates = <<>> THEN <<>>
  ELSE IF Contains(SuppNorm(Head(candidates)), match_text)
       THEN <<Head(candidates)>>
       ELSE FirstMatch(Tail(candidates), match_text)

SpecificGet(spec, cc) == IF cc \in DOMAIN spec THEN spec[cc] ELSE <<>>

GenericGet(gen, cc) == IF cc \in DOMAIN gen THEN <<gen[cc]>> ELSE <<>>

\* levels 1 and 2: the cost center of the row
MatchLevel(spec, gen, key, match_text) ==
  LET hit == FirstMatch(SpecificGet(spec, key), match_text)
  IN  IF hit # <<>> THEN hit ELSE GenericGet(gen, key)

\* the category tried before the generic rule of the cost center
MatchRow_CategoryFirst(spec, gen, cols, row) ==
  LET cc == normalize_text_helper(fillna(row.centro_custo))
      cat == normalize_text_helper(row.categoria)
      mt == MatchText(cols, row)
      byCc == FirstMatch(SpecificGet(spec, cc), mt)
      byCat == IF "Categoria 1" \in cols THEN MatchLevel(spec, gen, cat, mt) ELSE <<>>
  IN  IF byCc # <<>> THEN byCc
      ELSE IF byCat # <<>> THEN byCat
      ELSE GenericGet(gen, cc)

\* the whole resolution of one row
MatchRow(spec, gen, cols, row) ==
  LET cc == normalize_text_helper(fillna(row.centro_custo))
      mt == MatchText(cols, row)
      byCc == MatchLevel(spec, gen, cc, mt)
  IN  IF byCc # <<>> THEN byCc
      ELSE IF "Categoria 1" \in cols
           THEN MatchLevel(spec, gen, normalize_text_helper(row.categoria), mt)
           ELSE <<>>

(***************************************************************************)
(* Accumulation                                                            *)
(***************************************************************************)
\* the loop body without its try/except: the ValueError of int() escapes
AccumulateOutcome_NoExcept(lv, hit, month, val) ==
  IF hit = <<>> THEN [lv |-> lv, raised |-> FALSE]
  ELSE LET p == IntOf(hit[1].linha_pl)
       IN  IF p.ok /\ p.v \in DOMAIN lv
           THEN [lv |-> [lv EXCEPT ![p.v][month] = @ + val], raised |-> FALSE]
           ELSE [lv |-> lv, raised |-> TRUE]

\* the try block of the loop body: int(linha_pl) may raise ValueError and
\* line_values[line_num] KeyError; the bare except turns both into `continue`
AccumulateOutcome(lv, hit, month, val) ==
  IF hit = <<>> THEN [lv |-> lv, raised |-> FALSE]
  ELSE LET p == IntOf(hit[1].linha_pl)
       IN  IF p.ok /\ p.v \in DOMAIN lv
           THEN [lv |-> [lv EXCEPT ![p.v][month] = @ + val], raised |-> FALSE]
           ELSE [lv |-> lv, raised |-> FALSE]

(***************************************************************************)
(* Derivation of one month                                                 *)
(***************************************************************************)
Abs(x) == IF x < 0 THEN 0 - x ELSE x

RECURSIVE SumAbsLines(_, _, _, _)
SumAbsLines(lv, m, from, to) ==
  IF from > to THEN 0 ELSE Abs(lv[from][m]) + SumAbsLines(lv, m, from + 1, to)

\* the absolute value taken of a revenue line
google_rev_Abs(lv, m) == Abs(lv[25][m])

google_rev(lv, m) == lv[25][m]

apple_rev(lv, m) == lv[33][m]

invest_income(lv, m) == lv[38][m] + lv[49][m]

total_revenue(lv, m) == google_rev(lv, m) + apple_rev(lv, m) + invest_income(lv, m)

revenue_no_tax(lv, m) == google_rev(lv, m) + apple_rev(lv, m)

payment_processing_cost(lv, m) == (revenue_no_tax(lv, m) * RateNum) \div RateDen

\* the absolute value of the net of the range, not the sum of the lines'
\* absolute values
cogs_sum_AbsOfNet(lv, m) ==
  Abs(lv[43][m] + lv[44][m] + lv[45][m] + lv[46][m] + lv[47][m] + lv[48][m])

cogs_sum(lv, m) == SumAbsLines(lv, m, 43, 48)

\* the direct costs added instead of subtracted
gross_profit_CostsAdded(lv, m) ==
  total_revenue(lv, m) - payment_processing_cost(lv, m) + cogs_sum(lv, m)

gross_profit(lv, m) ==
  total_revenue(lv, m) - payment_processing_cost(lv, m) - cogs_sum(lv, m)

marketing_abs(lv, m) == Abs(lv[56][m])

wages_abs(lv, m) == Abs(lv[62][m])

tech_support_abs(lv, m) == Abs(lv[68][m]) + Abs(lv[65][m])

other_expenses_abs(lv, m) == Abs(lv[90][m])

sga_total(lv, m) == marketing_abs(lv, m) + wages_abs(lv, m) + tech_support_abs(lv, m)

\* the other expenses left out of the operating expenses
total_opex_SgaOnly(lv, m) == sga_total(lv, m)

total_opex(lv, m) == sga_total(lv, m) + other_expenses_abs(lv, m)

ebitda(lv, m) == gross_profit(lv, m) - total_opex(lv, m)

\* a charge taken between EBITDA and the net result
net_result_AfterOther(lv, m) == ebitda(lv, m) - other_expenses_abs(lv, m)

net_result(lv, m) == ebitda(lv, m)

\* the fourteen stores that end the body of the derivation loop
DeriveMonth(lv, m) ==
  [lv EXCEPT ![100][m] = total_revenue(lv, m),
             ![101][m] = revenue_no_tax(lv, m),
             ![112][m] = google_rev(lv, m),
             ![113][m] = apple_rev(lv, m),
             ![102][m] = 0 - payment_processing_cost(lv, m),
             ![103][m] = 0 - cogs_sum(lv, m),
             ![104][m] = gross_profit(lv, m),
             ![105][m] = 0 - sga_total(lv, m),
             ![106][m] = ebitda(lv, m),
             ![107][m] = 0 - marketing_abs(lv, m),
             ![108][m] = 0 - wages_abs(lv, m),
             ![109][m] = 0 - tech_support_abs(lv, m),
             ![110][m] = 0 - other_expenses_abs(lv, m),
             ![111][m] = net_result(lv, m)]

(***************************************************************************)
(* Overrides.  The dict {line_str: {month: value}} is the sequence of its  *)
(* items in insertion order; months_data is a function month -> value.     *)
(***************************************************************************)
Range(s) == {s[k] : k \in 1..Len(s)}

\* the restriction to FINAL_LINES left out
ApplyOverride_AnyLine(lv, months, item) ==
  LET p == IntOf(item.line_str)
  IN  IF ~p.ok \/ p.v \notin DOMAIN lv THEN lv
      ELSE [lv EXCEPT ![p.v] =
              [m \in DOMAIN @ |->
                 IF m \in DOMAIN item.months_data /\ m \in months
                 THEN item.months_data[m] ELSE @[m]]]

\* one item of overrides.items()
ApplyOverride(lv, months, item) ==
  LET p == IntOf(item.line_str)
  IN  IF ~p.ok THEN lv
      ELSE IF p.v \notin FINAL_LINES THEN lv
      ELSE [lv EXCEPT ![p.v] =
              [m \in DOMAIN @ |->
                 IF m \in DOMAIN item.months_data /\ m \in months
                 THEN item.months_data[m] ELSE @[m]]]

RECURSIVE ApplyOverrides(_, _, _)
ApplyOverrides(lv, months, ovs) ==
  IF ovs = <<>> THEN lv
  ELSE ApplyOverrides(ApplyOverride(lv, months, Head(ovs)), months, Tail(ovs))

(***************************************************************************)
(* Rows.  A margin is the exact quotient num/den, or nan/inf.              *)
(***************************************************************************)
Finite(n, d) == [kind |-> "finite", num |-> n, den |-> d]

ZeroMargin == Finite(0, 1)

\* x / rev * 100 in float arithmetic, unguarded
Percent(x, rev) ==
  IF rev # 0 THEN Finite(x * 100, rev)
  ELSE IF x = 0 THEN [kind |-> "nan", num |-> 0, den |-> 0]
       ELSE [kind |-> "inf", num |-> x, den |-> 0]

\* the division left unguarded
Margin_Unguarded(x, rev) == Percent(x, rev)

\* `if rev and rev != 0`
Margin(x, rev) == IF rev # 0 THEN Percent(x, rev) ELSE ZeroMargin

RowNumbers == {1, 2, 21, 22, 3, 4, 5, 6, 7, 8, 9, 10, 11, 12, 13, 16, 14, 15}

MarginRows == {14, 15}

\* the line of line_values a row publishes unchanged
RowLine(r) ==
  CASE r = 1 -> 100 [] r = 2 -> 101 [] r = 21 -> 112 [] r = 22 -> 113
    [] r = 3 -> 38 [] r = 5 -> 102 [] r = 6 -> 103 [] r = 7 -> 104
    [] r = 9 -> 107 [] r = 10 -> 108 [] r = 11 -> 109 [] r = 12 -> 110
    [] r = 13 -> 106 [] r = 16 -> 111

RowsOf(lv, months) ==
  [r \in RowNumbers |->
     [m \in months |->
        CASE r = 4 -> lv[102][m] + lv[103][m]
          [] r = 8 -> lv[105][m] + lv[110][m]
          [] r = 14 -> Margin(lv[106][m], lv[100][m])
          [] r = 15 -> Margin(lv[104][m], lv[100][m])
          [] OTHER -> lv[RowLine(r)][m]]]

(***************************************************************************)
(* process_upload: the value parser and the direction column               *)
(***************************************************************************)
\* model units in one currency unit: a float is kept exactly, to four
\* decimals
Unit == 10000

RECURSIVE Pow10(_)
Pow10(n) == IF n = 0 THEN 1 ELSE 10 * Pow10(n - 1)

\* str.replace(old, new), old not empty
RECURSIVE Replace(_, _, _)
Replace(s, old, new) ==
  IF Len(s) < Len(old) THEN s
  ELSE IF SubSeq(s, 1, Len(old)) = old
       THEN new \o Replace(SubSeq(s, Len(old) + 1, Len(s)), old, new)
       ELSE <<Head(s)>> \o Replace(Tail(s), old, new)

\* str.rfind(ch) + 1: the last position of ch, 0 when there is none
RFind(s, ch) ==
  IF \E k \in 1..Len(s) : s[k] = ch
  THEN CHOOSE k \in 1..Len(s) : s[k] = ch /\ \A n \in (k + 1)..Len(s) : s[n] # ch
  ELSE 0

\* float(s) on texts of digits, signs, dots and other marks: blanks around
\* the text and one sign are accepted, then digits with at most one dot
\* and at least one digit; anything else is a ValueError (ok = FALSE).
\* Exponents, underscores, "inf" and "nan" are outside the alphabet.
FloatOf(s) ==
  LET t == Strip(s)
      signed == t # <<>> /\ t[1] \in {"+", "-"}
      body == IF signed THEN Tail(t) ELSE t
      dot == RFind(body, ".")
      whole == IF dot = 0 THEN body ELSE SubSeq(body, 1, dot - 1)
      frac == IF dot = 0 THEN <<>> ELSE SubSeq(body, dot + 1, Len(body))
      mag == (DigitsValue(whole \o frac) * Unit) \div Pow10(Len(frac))
  IN  IF AllDigits(whole \o frac)
      THEN [ok |-> TRUE, v |-> IF signed /\ t[1] = "-" THEN 0 - mag ELSE mag]
      ELSE [ok |-> FALSE, v |-> 0]

StartsWith(s, ch) == s # <<>> /\ s[1] = ch

EndsWith(s, ch) == s # <<>> /\ s[Len(s)] = ch

\* the cleaning steps of converter_valor_br before float(): currency
\* symbol, accounting negatives, blanks, separators
AmountText(valor_str) ==
  LET s0 == Strip(Replace(valor_str, <<"R", "$">>, <<>>))
      paren == StartsWith(s0, "(") /\ EndsWith(s0, ")")
      s1 == IF paren THEN Strip(SubSeq(s0, 2, Len(s0) - 1)) ELSE s0
      minus == EndsWith(s1, "-")
      s2 == IF minus THEN Strip(SubSeq(s1, 1, Len(s1) - 1)) ELSE s1
      s3 == Replace(s2, <<" ">>, <<>>)
      comma == RFind(s3, ",")
      dot == RFind(s3, ".")
      s4 == IF comma # 0 /\ dot # 0
            THEN IF comma > dot
                 THEN Replace(Replace(s3, <<".">>, <<>>), <<",">>, <<".">>)
                 ELSE Replace(s3, <<",">>, <<>>)
            ELSE IF comma # 0 THEN Replace(s3, <<",">>, <<".">>) ELSE s3
  IN  [negative |-> paren \/ minus, s |-> s4]

\* converter_valor_br without its `except ValueError`
converter_valor_br_NoExcept(valor_str) ==
  IF valor_str = NaN \/ Strip(valor_str) = <<>>
  THEN [raised |-> FALSE, v |-> 0]
  ELSE LET a == AmountText(valor_str)
           f == FloatOf(a.s)
       IN  IF f.ok
           THEN [raised |-> FALSE, v |-> IF a.negative THEN 0 - f.v ELSE f.v]
           ELSE [raised |-> TRUE, v |-> 0]

converter_valor_br(valor_str) ==
  IF valor_str = NaN \/ Strip(valor_str) = <<>>
  THEN [raised |-> FALSE, v |-> 0]
  ELSE LET a == AmountText(valor_str)
           f == FloatOf(a.s)
       IN  IF f.ok
           THEN [raised |-> FALSE, v |-> IF a.negative THEN 0 - f.v ELSE f.v]
           ELSE [raised |-> FALSE, v |-> 0]

\* the local normalize_text of process_upload
normalize_text(s) == normalize_text_helper(s)

is_saida(tipo) ==
  \/ Contains(<<"s", "a", "i", "d", "a">>, tipo)
  \/ Contains(<<"d", "e", "b", "i", "t", "o">>, tipo)
  \/ Contains(<<"d", "e", "s", "p", "e", "s", "a">>, tipo)
  \/ Contains(<<"p", "a", "g", "a", "m", "e", "n", "t", "o">>, tipo)

\* the cell of a column the table does not have
Absent == <<"absent">>

\* the direction step with the embedded sign left in place
SignedAmount_EmbeddedSign(v, tipo_cell) ==
  IF tipo_cell = Absent THEN v
  ELSE v * (IF is_saida(normalize_text(tipo_cell)) THEN 0 - 1 ELSE 1)

\* df['Valor_Num'].abs() * sign when the table has the column 'Tipo'
SignedAmount(v, tipo_cell) ==
  IF tipo_cell = Absent THEN v
  ELSE Abs(v) * (IF is_saida(normalize_text(tipo_cell)) THEN 0 - 1 ELSE 1)

(***************************************************************************)
(* process_upload: format detection                                        *)
(*                                                                         *)
(* The bytes are kept as what pd.read_csv can make of them: the encoding   *)
(* they are written in, their delimiter, the header names and the data     *)
(* lines, a line being bad when it has more fields than the header.  A     *)
(* column name is a sequence of blanks around one name.                    *)
(***************************************************************************)
encodings == <<"utf-8", "latin-1", "iso-8859-1", "cp1252">>

separators == <<",", ";", "\t">>

DateCol == <<"Data de competência">>

ValorCol == <<"Valor (R$)">>

TipoCol == <<"Tipo">>

CcCol == <<"Centro de Custo 1">>

SuppCol == <<"Nome do fornecedor/cliente">>

CatCol == <<"Categoria 1">>

DescCol == <<"Descrição">>

\* names with a character outside ASCII, which a wrong single-byte decoding
\* changes
NonAscii ==
  { "Data de competência", "Data de Competência", "Data Competência",
    "Entrada/Saída", "Tipo (Entrada/Saída)", "Tipo de movimentação",
    "Tipo de Movimentação", "Descrição" }

Garbled(name) ==
  [k \in 1..Len(name) |-> IF name[k] \in NonAscii THEN "mojibake" ELSE name[k]]

\* pd.read_csv(io.BytesIO(file_content), encoding, sep[, on_bad_lines='skip'])
read_csv(file, encoding, sep, lenient) ==
  LET latin == encoding \in {"latin-1", "iso-8859-1", "cp1252"}
      good == IF lenient THEN SelectSeq(file.lines, LAMBDA ln : ~ln.bad)
              ELSE file.lines
      cells == [k \in 1..Len(good) |-> good[k].cells]
  IN  IF encoding = "utf-8" /\ file.encoding # "utf-8"
      THEN [raised |-> TRUE, header |-> <<>>, rows |-> <<>>]
      ELSE IF latin /\ file.encoding = "utf-16"
      THEN [raised |-> FALSE, header |-> <<<<"mojibake">>>>, rows |-> <<>>]
      ELSE IF sep # file.sep /\ Len(file.header) > 1
      THEN [raised |-> FALSE, header |-> <<<<"header line">>>>, rows |-> <<>>]
      ELSE IF ~lenient /\ \E k \in 1..Len(file.lines) : file.lines[k].bad
      THEN [raised |-> TRUE, header |-> <<>>, rows |-> <<>>]
      ELSE [raised |-> FALSE,
            header |-> IF latin /\ file.encoding = "utf-8"
                       THEN [k \in 1..Len(file.header) |-> Garbled(file.header[k])]
                       ELSE file.header,
            rows |-> cells]

\* the test of an attempt: 'Data de competência' in df.columns
Exposes(t) == ~t.raised /\ DateCol \in Range(t.header)

\* the first of the positions of a list at which a loop stops, 0 when it
\* stops at none
FirstIndex(K) ==
  IF K = {} THEN 0 ELSE CHOOSE k \in K : \A n \in K : k <= n

\* one round of `for encoding in encodings`: the strict attempts, then the
\* lenient ones
TryEncoding(file, encoding) ==
  LET strict == FirstIndex({k \in 1..Len(separators) :
                              Exposes(read_csv(file, encoding, separators[k], FALSE))})
      lenient == FirstIndex({k \in 1..Len(separators) :
                               Exposes(read_csv(file, encoding, separators[k], TRUE))})
  IN  IF strict # 0 THEN <<read_csv(file, encoding, separators[strict], FALSE)>>
      ELSE IF lenient # 0 THEN <<read_csv(file, encoding, separators[lenient], TRUE)>>
      ELSE <<>>

\* last_error is set by a lenient attempt that raises
LastError(file) ==
  \E e \in Range(encodings) : \E sep \in Range(separators) :
     read_csv(file, e, sep, TRUE).raised

\* the table accepted, or the ValueError "Error reading CSV file"
DetectFormat(file) ==
  LET enc == FirstIndex({k \in 1..Len(encodings) :
                           TryEncoding(file, encodings[k]) # <<>>})
  IN  IF enc = 0
      THEN [error |-> [kind |-> "format", details |-> LastError(file)],
            header |-> <<>>, rows |-> <<>>]
      ELSE LET t == TryEncoding(file, encodings[enc])[1]
           IN  [error |-> <<>>, header |-> t.header, rows |-> t.rows]

(***************************************************************************)
(* process_upload: column reconciliation                                   *)
(***************************************************************************)
column_aliases ==
  << [target |-> "Data de competência",
      aliases |-> <<"Data de competência", "Data de Competência",
                    "Data Competência", "data_competencia", "Data">>],
     [target |-> "Valor (R$)",
      aliases |-> <<"Valor (R$)", "Valor", "Valor R$", "valor", "VALOR">>],
     [target |-> "Tipo",
      aliases |-> <<"Tipo", "tipo", "Entrada/Saída", "Entrada/Saida",
                    "Tipo (Entrada/Saída)", "Tipo (Entrada/Saida)",
                    "Tipo de movimentação", "Tipo de Movimentação",
                    "Natureza", "natureza">>],
     [target |-> "Centro de Custo 1",
      aliases |-> <<"Centro de Custo 1", "Centro de Custo", "CentroCusto",
                    "centro_custo", "Centro de custo 1">>],
     [target |-> "Nome do fornecedor/cliente",
      aliases |-> <<"Nome do fornecedor/cliente", "Fornecedor/Cliente",
                    "Nome Fornecedor", "fornecedor_cliente", "Fornecedor",
                    "Cliente">>] >>

\* one round of `for target_col, aliases in column_aliases.items()`
RenameFirstAlias(cols, entry) ==
  IF <<entry.target>> \in Range(cols) THEN cols
  ELSE LET a == FirstIndex({k \in 1..Len(entry.aliases) :
                             <<entry.aliases[k]>> \in Range(cols)})
       IN  IF a = 0 THEN cols
           ELSE [k \in 1..Len(cols) |->
                   IF cols[k] = <<entry.aliases[a]>> THEN <<entry.target>>
                   ELSE cols[k]]

RECURSIVE RenameAll(_, _)
RenameAll(cols, k) ==
  IF k > Len(column_aliases) THEN cols
  ELSE RenameAll(RenameFirstAlias(cols, column_aliases[k]), k + 1)

required_cols == <<DateCol, ValorCol, CcCol, SuppCol>>

Min(a, b) == IF a <= b THEN a ELSE b

\* df.columns stripped and renamed, or the ValueError "Missing required
\* columns" with the first ten columns
ReconcileColumns(t) ==
  LET stripped == [k \in 1..Len(t.header) |-> Strip(t.header[k])]
      cols == RenameAll(stripped, 1)
      missing_cols == SelectSeq(required_cols, LAMBDA c : c \notin Range(cols))
  IN  IF missing_cols # <<>>
      THEN [error |-> [kind |-> "schema", missing |-> missing_cols,
                       available |-> SubSeq(cols, 1, Min(10, Len(cols)))],
            header |-> cols, rows |-> t.rows]
      ELSE [error |-> <<>>, header |-> cols, rows |-> t.rows]

(***************************************************************************)
(* process_upload: data cleaning                                           *)
(***************************************************************************)
\* row[col], or Absent for a table without the column
Cell(header, row, col) ==
  IF col \in Range(header)
  THEN row[CHOOSE k \in 1..Len(header) : header[k] = col /\ \A n \in 1..(k - 1) : header[n] # col]
  ELSE Absent

\* two columns share the label: df[col] is a table, not a column
Duplicated(header, col) ==
  Cardinality({k \in 1..Len(header) : header[k] = col}) > 1

formats ==
  << [sep |-> "/", order |-> <<"d", "m", "Y">>],
     [sep |-> "-", order |-> <<"Y", "m", "d">>],
     [sep |-> "/", order |-> <<"m", "d", "Y">>],
     [sep |-> "-", order |-> <<"d", "m", "Y">>] >>

IsLeap(y) == (y % 4 = 0 /\ y % 100 # 0) \/ y % 400 = 0

DaysIn(y, m) ==
  IF m = 2 THEN (IF IsLeap(y) THEN 29 ELSE 28)
  ELSE IF m \in {4, 6, 9, 11} THEN 30 ELSE 31

\* pd.to_datetime(date_str, format=fmt): three fields of digits, a day and
\* a month of one or two digits, a year of four, a date of the calendar
\* within the range of a Timestamp
StrpTime(text, fmt) ==
  LET at == {k \in 1..Len(text) : text[k] = fmt.sep}
      a == CHOOSE k \in at : \A n \in at : k <= n
      b == CHOOSE k \in at : \A n \in at : k >= n
      f == <<SubSeq(text, 1, a - 1), SubSeq(text, a + 1, b - 1),
             SubSeq(text, b + 1, Len(text))>>
      pos(c) == CHOOSE k \in 1..3 : fmt.order[k] = c
      shaped == /\ \A k \in 1..3 : AllDigits(f[k])
                /\ Len(f[pos("Y")]) = 4
                /\ Len(f[pos("m")]) <= 2
                /\ Len(f[pos("d")]) <= 2
      y == DigitsValue(f[pos("Y")])
      m == DigitsValue(f[pos("m")])
      d == DigitsValue(f[pos("d")])
  IN  IF Cardinality(at) = 2 /\ shaped /\ y \in 1678..2261 /\ m \in 1..12
         /\ d \in 1..DaysIn(y, m)
      THEN [ok |-> TRUE, year |-> y, month |-> m, day |-> d]
      ELSE [ok |-> FALSE, year |-> 0, month |-> 0, day |-> 0]

\* parse_dates followed by .dt.to_period('M'): the month of the first format
\* that accepts the cell, NaT when the cell is missing or none does
parse_dates(date_str) ==
  IF date_str = NaN THEN NaT
  ELSE LET fmt == FirstIndex({k \in 1..Len(formats) :
                               StrpTime(Strip(date_str), formats[k]).ok})
       IN  IF fmt = 0 THEN NaT
           ELSE LET t == StrpTime(Strip(date_str), formats[fmt])
                IN  t.year * 12 + t.month

\* Series.astype(str)
astype_str(cell) == IF cell = NaN THEN <<"n", "a", "n">> ELSE cell

UsedCols == {DateCol, ValorCol, TipoCol, CcCol, SuppCol, CatCol, DescCol}

CleanRow(header, row) ==
  [centro_custo |-> Strip(astype_str(Cell(header, row, CcCol))),
   fornecedor |-> Strip(astype_str(Cell(header, row, SuppCol))),
   descricao |-> IF DescCol \in Range(header) THEN Cell(header, row, DescCol) ELSE NaN,
   categoria |-> IF CatCol \in Range(header)
                 THEN Strip(astype_str(Cell(header, row, CatCol))) ELSE NaN,
   Valor_Num |-> SignedAmount(converter_valor_br(Cell(header, row, ValorCol)).v,
                              Cell(header, row, TipoCol)),
   Mes_Competencia |-> parse_dates(Cell(header, row, DateCol))]

\* the cleaning of lines 211-328.  A column applied to a table of no rows
\* keeps the dtype object and `.dt` raises AttributeError; a label borne by
\* two columns selects a table and the column operations raise.
CleanData(t) ==
  IF \E c \in UsedCols : Duplicated(t.header, c)
  THEN [error |-> [kind |-> "other", details |-> "duplicate column"],
        header |-> t.header, rows |-> <<>>]
  ELSE IF t.rows = <<>>
  THEN [error |-> [kind |-> "other", details |-> "AttributeError: .dt"],
        header |-> t.header, rows |-> <<>>]
  ELSE [error |-> <<>>, header |-> t.header,
        rows |-> [k \in 1..Len(t.rows) |-> CleanRow(t.header, t.rows[k])]]

(***************************************************************************)
(* process_upload: payroll override                                        *)
(***************************************************************************)
PAYROLL_COST_CENTER ==
  <<"W", "a", "g", "e", "s", " ", "E", "x", "p", "e", "n", "s", "e", "s">>

PayrollKeywordList ==
  << <<"f", "o", "l", "h", "a", " ", "d", "e", " ", "p", "a", "g", "a", "m", "e", "n", "t", "o">>,
     <<"f", "o", "l", "h", "a", " ", "p", "a", "g", "a", "m", "e", "n", "t", "o">>,
     <<"f", "o", "l", "h", "a">>,
     <<"p", "r", "o", " ", "l", "a", "b", "o", "r", "e">>,
     <<"p", "r", "o", "-", "l", "a", "b", "o", "r", "e">>,
     <<"p", "r", "ó", " ", "l", "a", "b", "o", "r", "e">>,
     <<"p", "r", "ó", "-", "l", "a", "b", "o", "r", "e">>,
     <<"s", "a", "l", "a", "r", "i", "o">>,
     <<"s", "a", "l", "á", "r", "i", "o">>,
     <<"h", "o", "l", "e", "r", "i", "t", "e">>,
     <<"p", "r", "e", "s", "t", "a", "d", "o", "r", " ", "d", "e", " ", "s", "e", "r", "v", "i", "c", "o", " ", "p", "j">>,
     <<"p", "a", "y", "r", "o", "l", "l">> >>

PAYROLL_KEYWORDS ==
  [k \in 1..Len(PayrollKeywordList) |-> normalize_text_helper(PayrollKeywordList[k])]

\* ' '.join of the four normalized fields
combined_text(header, row) ==
  normalize_text_helper(row.centro_custo) \o <<" ">>
    \o (IF CatCol \in Range(header) THEN normalize_text_helper(row.categoria) ELSE <<>>)
    \o <<" ">>
    \o normalize_text_helper(row.descricao) \o <<" ">>
    \o normalize_text_helper(row.fornecedor)

\* the payroll override that looks at the cost center only
enforce_wages_cost_center_CcOnly(header, row) ==
  IF normalize_text_helper(row.centro_custo) = normalize_text_helper(PAYROLL_COST_CENTER)
  THEN PAYROLL_COST_CENTER
  ELSE Strip(row.centro_custo)

enforce_wages_cost_center(header, row) ==
  LET current_cc == Strip(row.centro_custo)
      cc_norm == normalize_text_helper(current_cc)
  IN  IF cc_norm = <<"w", "a", "g", "e", "s", " ", "e", "x", "p", "e", "n", "s", "e", "s">>
      THEN PAYROLL_COST_CENTER
      ELSE IF \E k \in 1..Len(PAYROLL_KEYWORDS) :
                 Contains(PAYROLL_KEYWORDS[k], combined_text(header, row))
      THEN PAYROLL_COST_CENTER
      ELSE current_cc

EnforceWagesAll(t) ==
  [k \in 1..Len(t.rows) |->
     [t.rows[k] EXCEPT !.centro_custo = enforce_wages_cost_center(t.header, t.rows[k])]]

\* the optional columns calculate_pnl looks for
OptionalColumns(header) ==
  {c \in {"Categoria 1", "Descrição"} : <<c>> \in Range(header)}

\* process_upload as a whole: the error raised, or the table returned
process_upload(file) ==
  LET d == DetectFormat(file)
      r == ReconcileColumns(d)
      c == CleanData(r)
  IN  IF d.error # <<>> THEN [error |-> d.error, df |-> <<>>, columns |-> {}]
      ELSE IF r.error # <<>> THEN [error |-> r.error, df |-> <<>>, columns |-> {}]
      ELSE IF c.error # <<>> THEN [error |-> c.error, df |-> <<>>, columns |-> {}]
      ELSE [error |-> <<>>, df |-> EnforceWagesAll(c), columns |-> OptionalColumns(c.header)]

(***************************************************************************)
(* calculate_pnl                                                           *)
(***************************************************************************)
\* the date filter, at the granularity of a month; NaT compares false
InDateRange(row, start, end) ==
  /\ start # NaT => (row.Mes_Competencia # NaT /\ row.Mes_Competencia >= start)
  /\ end # NaT => (row.Mes_Competencia # NaT /\ row.Mes_Competencia <= end)

SortedSeq(S) ==
  [k \in 1..Cardinality(S) |->
     CHOOSE x \in S : Cardinality({y \in S : y < x}) = k - 1]

\* the months of a table whose null month keys are not dropped
MonthsOf_KeepNaT(fdf) ==
  SortedSeq({fdf[k].Mes_Competencia : k \in 1..Len(fdf)})

\* sorted(filtered_df['Mes_Competencia'].dropna().unique())
MonthsOf(fdf) ==
  SortedSeq({fdf[k].Mes_Competencia : k \in 1..Len(fdf)} \ {NaT})

\* an accumulator kept from one call to the next
InitialLineValues_Kept(ms) ==
  IF line_values # <<>> /\ DOMAIN line_values[1] = Range(ms)
  THEN line_values
  ELSE [l \in 1..MaxLine |-> [m \in Range(ms) |-> 0]]

\* line_values = {i: {m: 0.0 for m in month_strs} for i in range(1, 121)}
InitialLineValues(ms) == [l \in 1..MaxLine |-> [m \in Range(ms) |-> 0]]

Start ==
  /\ pc = "start"
  /\ IF df = <<>>
     THEN /\ pc' = "done"
          /\ headers' = <<>>
          /\ rows' = <<>>
          /\ UNCHANGED <<filtered_df, month_strs, line_values,
                         specific_mappings, generic_mappings>>
     ELSE LET fdf == SelectSeq(df, LAMBDA row : InDateRange(row, start_date, end_date))
              ms == MonthsOf(fdf)
          IN  /\ filtered_df' = fdf
              /\ month_strs' = ms
              /\ line_values' = InitialLineValues(ms)
              /\ specific_mappings' = SpecificByCc(mappings)
              /\ generic_mappings' = GenericByCc(mappings)
              /\ pc' = "loop"
              /\ UNCHANGED <<headers, rows>>
  /\ UNCHANGED <<inputs, callers, i, matched_mapping, raised, j, lv_derived>>

\* one iteration of `for _, row in filtered_df.iterrows()`
LoopRow ==
  /\ pc = "loop"
  /\ i <= Len(filtered_df)
  /\ LET row == filtered_df[i]
         month == row.Mes_Competencia
     IN  IF month \notin Range(month_strs)
         THEN /\ matched_mapping' = <<>>
              /\ UNCHANGED <<line_values, raised, pc>>
         ELSE LET hit == MatchRow(specific_mappings, generic_mappings, columns, row)
                  out == AccumulateOutcome(line_values, hit, month, row.Valor_Num)
              IN  /\ matched_mapping' = hit
                  /\ line_values' = out.lv
                  /\ raised' = out.raised
                  /\ pc' = IF out.raised THEN "raised" ELSE pc
  /\ i' = i + 1
  /\ UNCHANGED <<inputs, callers, filtered_df, month_strs, specific_mappings,
                 generic_mappings, j, lv_derived, headers, rows>>

\* one iteration of `for m in month_strs`, entered when the rows are exhausted
Derive ==
  /\ pc = "loop"
  /\ i > Len(filtered_df)
  /\ j <= Len(month_strs)
  /\ line_values' = DeriveMonth(line_values, month_strs[j])
  /\ j' = j + 1
  /\ UNCHANGED <<inputs, callers, pc, filtered_df, month_strs, specific_mappings,
                 generic_mappings, i, matched_mapping, raised, lv_derived,
                 headers, rows>>

Override ==
  /\ pc = "loop"
  /\ i > Len(filtered_df)
  /\ j > Len(month_strs)
  /\ lv_derived' = line_values
  /\ line_values' = ApplyOverrides(line_values, Range(month_strs), overrides)
  /\ pc' = "rows"
  /\ UNCHANGED <<inputs, callers, filtered_df, month_strs, specific_mappings,
                 generic_mappings, i, matched_mapping, raised, j, headers, rows>>

BuildRows ==
  /\ pc = "rows"
  /\ rows' = RowsOf(line_values, Range(month_strs))
  /\ headers' = month_strs
  /\ pc' = "done"
  /\ UNCHANGED <<inputs, callers, filtered_df, month_strs, line_values,
                 specific_mappings, generic_mappings, i, matched_mapping,
                 raised, j, lv_derived>>

\* calculate_pnl as a function of its arguments: the loops of the steps
\* above, folded
RECURSIVE AccumulateAll(_, _, _, _, _, _)
AccumulateAll(lv, spec, gen, cols, fdf, months) ==
  IF fdf = <<>> THEN lv
  ELSE LET row == Head(fdf)
           next == IF row.Mes_Competencia \notin months THEN lv
                   ELSE AccumulateOutcome(lv, MatchRow(spec, gen, cols, row),
                                          row.Mes_Competencia, row.Valor_Num).lv
       IN  AccumulateAll(next, spec, gen, cols, Tail(fdf), months)

RECURSIVE DeriveAll(_, _)
DeriveAll(lv, ms) ==
  IF ms = <<>> THEN lv ELSE DeriveAll(DeriveMonth(lv, Head(ms)), Tail(ms))

calculate_pnl(d, maps, ovs, cols, start, end) ==
  IF d = <<>> THEN [headers |-> <<>>, rows |-> <<>>]
  ELSE LET fdf == SelectSeq(d, LAMBDA row : InDateRange(row, start, end))
           ms == MonthsOf(fdf)
           lv0 == [l \in 1..MaxLine |-> [m \in Range(ms) |-> 0]]
           lv1 == AccumulateAll(lv0, SpecificByCc(maps), GenericByCc(maps), cols,
                                fdf, Range(ms))
           lv2 == ApplyOverrides(DeriveAll(lv1, ms), Range(ms), ovs)
       IN  [headers |-> ms, rows |-> RowsOf(lv2, Range(ms))]

Next == Start \/ LoopRow \/ Derive \/ Override \/ BuildRows

(***************************************************************************)
(* Inputs                                                                  *)
(***************************************************************************)
Rule(cc, supp, line) ==
  [centro_custo |-> cc, fornecedor_cliente |-> supp, linha_pl |-> line,
   ativo |-> "Sim"]

Row(cc, supp, desc, cat, val, mes) ==
  [centro_custo |-> cc, fornecedor |-> supp, descricao |-> desc,
   categoria |-> cat, Valor_Num |-> val, Mes_Competencia |-> mes]

Item(line, md) == [line_str |-> line, months_data |-> md]

SeqsUpTo(S, n) == UNION {[1..k -> S] : k \in 0..n}

Injective(s) == \A a, b \in 1..Len(s) : s[a] = s[b] => a = b

AllColumns == {"Categoria 1", "Descrição"}

\* rule sets of the matcher runs: short and long patterns of one cost
\* center, generic rules, category-keyed rules, malformed and out-of-range
\* target lines
RulePool ==
  { Rule(<<"W", " ">>, <<"A">>, <<"4", "3">>),
    Rule(<<"w">>, <<"a", "b">>, <<" ", "4", "8">>),
    Rule(<<"w">>, <<"Á", "b">>, <<"4", "x">>),
    Rule(<<"w">>, <<"D", "i", "v", "e", "r", "s", "o", "s">>, <<"4", "5">>),
    Rule(<<"w">>, <<>>, <<"4", ".", "5">>),
    Rule(<<"ç">>, <<"a">>, <<"5", "6">>),
    Rule(<<"C">>, <<"d", "i", "v", "e", "r", "s", "o", "s">>, <<"1", "2", "1">>) }

MatchRowPool ==
  { Row(<<"w">>, <<"A", "B">>, NaN, <<"c">>, 10000, 1),
    Row(<<" ", "W">>, <<"a">>, <<"b">>, <<"c">>, 0 - 20000, 1),
    Row(<<"z">>, <<"a">>, NaN, <<"C", " ">>, 30000, 1),
    Row(<<"w">>, <<"q">>, <<>>, <<"c">>, 10000, 2),
    Row(<<"z">>, <<"q">>, NaN, NaN, 10000, 1),
    Row(<<"w">>, <<"a">>, NaN, <<"c">>, 10000, NaT) }

\* one row, or two rows of which the first is dated in month 1
MatchFrames ==
  {<<r>> : r \in MatchRowPool}
    \cup {<<r, q>> : r \in {x \in MatchRowPool : x.Valor_Num > 0 /\ x.Valor_Num < 20000
                                                  /\ x.Mes_Competencia = 1},
                     q \in {x \in MatchRowPool : x.Mes_Competencia = 1}}

\* no call of the value parser is modelled
NoValue ==
  /\ Valor = <<>>
  /\ Tipo = <<>>
  /\ Valor_Num = 0

\* no call of process_upload is modelled
NoUpload ==
  /\ file_content = <<>>
  /\ table = <<>>
  /\ error = <<>>
  /\ calls = 1
  /\ previous = <<>>

\* no call of calculate_forecast is modelled
NoForecast ==
  /\ months_ahead = 0
  /\ models = <<>>
  /\ response = <<>>

InitLocals ==
  /\ filtered_df = <<>>
  /\ month_strs = <<>>
  /\ line_values = <<>>
  /\ specific_mappings = <<>>
  /\ generic_mappings = <<>>
  /\ i = 1
  /\ j = 1
  /\ matched_mapping = <<>>
  /\ raised = FALSE
  /\ lv_derived = <<>>
  /\ headers = <<>>
  /\ rows = <<>>

\* no call of get_pnl_line_transactions is modelled
NoDrill ==
  /\ drill_line_number = 0
  /\ drill_month = NaT
  /\ line_mapping = <<>>
  /\ transactions = <<>>
  /\ total = 0

InitState ==
  /\ pc = "start"
  /\ InitLocals
  /\ NoValue
  /\ NoUpload
  /\ NoForecast
  /\ NoDrill

InitMatch ==
  /\ mappings \in {s \in SeqsUpTo(RulePool, MaxRules) : Injective(s)}
  /\ df \in MatchFrames
  /\ columns \in {AllColumns, {}}
  /\ columns = {} => Len(df) = 1
  /\ overrides = <<>>
  /\ start_date = NaT
  /\ end_date = NaT
  /\ InitState

SpecMatch == InitMatch /\ [][Next]_vars

\* the rule set of the derivation runs: one cost center per line the
\* formulas read, in the layout of get_initial_mappings; a generic rule has
\* the supplier "diversos" or none
LedgerMappings ==
  << Rule(<<"g">>, <<"d", "i", "v", "e", "r", "s", "o", "s">>, <<"2", "5">>),
     Rule(<<"p">>, <<>>, <<"3", "3">>),
     Rule(<<"i">>, <<>>, <<"3", "8">>),
     Rule(<<"m">>, <<>>, <<"4", "9">>),
     Rule(<<"w">>, <<"a">>, <<"4", "3">>),
     Rule(<<"w">>, <<"a", "b">>, <<"4", "8">>),
     Rule(<<"w">>, <<>>, <<"4", "3">>),
     Rule(<<"k">>, <<>>, <<"5", "6">>),
     Rule(<<"s">>, <<>>, <<"6", "2">>),
     Rule(<<"t">>, <<"a">>, <<"6", "8">>),
     Rule(<<"t">>, <<>>, <<"6", "5">>),
     Rule(<<"o">>, <<>>, <<"9", "0">>),
     Rule(<<"d">>, <<>>, <<"1", "0", "4">>) >>

LedgerRow(cc, supp, val, mes) == Row(cc, supp, NaN, NaN, val, mes)

LedgerRowPool ==
  { LedgerRow(<<"g">>, <<"q">>, 20000, 1),
    LedgerRow(<<"g">>, <<"q">>, 0 - 20000, 1),
    LedgerRow(<<"p">>, <<"q">>, 10000, 1),
    LedgerRow(<<"i">>, <<"q">>, 10000, 2),
    LedgerRow(<<"m">>, <<"q">>, 0 - 10000, 1),
    LedgerRow(<<"w">>, <<"a", "b">>, 0 - 10000, 1),
    LedgerRow(<<"k">>, <<"q">>, 0 - 20000, 1),
    LedgerRow(<<"s">>, <<"q">>, 0 - 10000, 2),
    LedgerRow(<<"t">>, <<"a">>, 0 - 10000, 1),
    LedgerRow(<<"t">>, <<"q">>, 10000, 1),
    LedgerRow(<<"o">>, <<"q">>, 0 - 10000, 1),
    LedgerRow(<<"d">>, <<"q">>, 10000, 1) }

OverridePool ==
  { <<>>,
    << Item(<<"1", "0", "0">>, (1 :> 0)) >>,
    << Item(<<"1", "0", "0">>, (1 :> 50000 @@ 3 :> 7)) >>,
    << Item(<<"1", "0", "6">>, (1 :> 7)) >>,
    << Item(<<"1", "1", "1">>, (1 :> 7)) >>,
    << Item(<<"1", "0", "6">>, (1 :> 7)), Item(<<"1", "1", "1">>, (1 :> 7)) >>,
    << Item(<<"1", "0", "4">>, (1 :> 9)) >>,
    << Item(<<"x">>, (1 :> 9)) >>,
    << Item(<<"1", "0", "0">>, (3 :> 9)) >>,
    << Item(<<"2", "5">>, (1 :> 5)), Item(<<" ", "1", "0", "6">>, (2 :> 0 - 5)) >> }

Init ==
  /\ mappings = LedgerMappings
  /\ df \in SeqsUpTo(LedgerRowPool, MaxTx)
  /\ columns = AllColumns
  /\ overrides \in OverridePool
  /\ start_date \in {NaT, 2}
  /\ start_date # NaT => overrides = <<>>
  /\ end_date = NaT
  /\ InitState

Spec == Init /\ [][Next]_vars

(***************************************************************************)
(* The value parser on one cell: df['Valor (R$)'].apply(converter_valor_br)*)
(* and the direction step of process_upload                                *)
(***************************************************************************)
MaxLen == 4

ConvertValor ==
  /\ pc = "convert"
  /\ LET out == converter_valor_br(Valor)
     IN  /\ Valor_Num' = out.v
         /\ raised' = out.raised
         /\ pc' = IF out.raised THEN "raised" ELSE "tipo"
  /\ UNCHANGED <<inputs, Valor, Tipo, file_content, table, error, calls, filtered_df, month_strs, line_values,
                 specific_mappings, generic_mappings, i, matched_mapping, j,
                 lv_derived, headers, rows>>
  /\ UNCHANGED <<previous, months_ahead, models, response, drill>>

ApplyTipo ==
  /\ pc = "tipo"
  /\ Valor_Num' = SignedAmount(Valor_Num, Tipo)
  /\ pc' = "signed"
  /\ UNCHANGED <<inputs, Valor, Tipo, file_content, table, error, calls, filtered_df, month_strs, line_values,
                 specific_mappings, generic_mappings, i, matched_mapping,
                 raised, j, lv_derived, headers, rows>>
  /\ UNCHANGED <<previous, months_ahead, models, response, drill>>

NextValue == ConvertValor \/ ApplyTipo

ValueChars == {"1", "5", ".", ",", "(", ")", "-", " ", "R", "$"}

\* every amount cell over the alphabet, and the missing cell
ValorPool == SeqsUpTo(ValueChars, MaxLen) \cup {NaN}

ValorSample ==
  { <<"1">>, <<"-", "1">>, <<"(", "1", ")">>, <<"1", "-">>, <<"x">>, NaN }

\* direction cells: every outflow synonym, inflows, near misses, a missing
\* cell, and the table without the column
TipoPool ==
  { <<"S", "a", "í", "d", "a">>,
    <<"E", "n", "t", "r", "a", "d", "a">>,
    <<" ", "d", "e", "b", "i", "t", "o">>,
    <<"x", "D", "e", "s", "p", "e", "s", "a", "s">>,
    <<"P", "a", "g", "a", "m", "e", "n", "t", "o">>,
    <<"s", "a", "i", " ", "d", "a">>,
    <<>>,
    NaN }

InitValue ==
  /\ \/ Valor \in ValorPool /\ Tipo \in {Absent, <<"S", "a", "í", "d", "a">>,
                                         <<"E", "n", "t", "r", "a", "d", "a">>}
     \/ Valor \in ValorSample /\ Tipo \in TipoPool
  /\ Valor_Num = 0
  /\ pc = "convert"
  /\ mappings = <<>>
  /\ df = <<>>
  /\ columns = {}
  /\ overrides = <<>>
  /\ start_date = NaT
  /\ end_date = NaT
  /\ InitLocals
  /\ NoUpload
  /\ NoForecast
  /\ NoDrill

SpecValue == InitValue /\ [][NextValue]_vars

(***************************************************************************)
(* process_upload, step by step, followed by calculate_pnl on the table it *)
(* returns; a caller may then make another call                            *)
(***************************************************************************)
MaxLines == 2

MaxCalls == 2

Detect ==
  /\ pc = "upload"
  /\ LET d == DetectFormat(file_content)
     IN  /\ table' = [header |-> d.header, rows |-> d.rows]
         /\ error' = d.error
         /\ pc' = IF d.error # <<>> THEN "failed" ELSE "reconcile"
  /\ UNCHANGED <<inputs, Valor, Tipo, Valor_Num, file_content, calls,
                 filtered_df, month_strs, line_values, specific_mappings,
                 generic_mappings, i, matched_mapping, raised, j, lv_derived,
                 headers, rows>>
  /\ UNCHANGED <<previous, months_ahead, models, response, drill>>

Reconcile ==
  /\ pc = "reconcile"
  /\ LET r == ReconcileColumns(table)
     IN  /\ table' = [header |-> r.header, rows |-> r.rows]
         /\ error' = r.error
         /\ pc' = IF r.error # <<>> THEN "failed" ELSE "clean"
  /\ UNCHANGED <<inputs, Valor, Tipo, Valor_Num, file_content, calls,
                 filtered_df, month_strs, line_values, specific_mappings,
                 generic_mappings, i, matched_mapping, raised, j, lv_derived,
                 headers, rows>>
  /\ UNCHANGED <<previous, months_ahead, models, response, drill>>

Clean ==
  /\ pc = "clean"
  /\ LET c == CleanData(table)
     IN  /\ table' = [header |-> c.header, rows |-> c.rows]
         /\ error' = c.error
         /\ pc' = IF c.error # <<>> THEN "failed" ELSE "wages"
  /\ UNCHANGED <<inputs, Valor, Tipo, Valor_Num, file_content, calls,
                 filtered_df, month_strs, line_values, specific_mappings,
                 generic_mappings, i, matched_mapping, raised, j, lv_derived,
                 headers, rows>>
  /\ UNCHANGED <<previous, months_ahead, models, response, drill>>

\* df.apply(enforce_wages_cost_center, axis=1) and `return df`; the caller
\* hands the table returned to calculate_pnl (table keeps the rows as they
\* were cleaned)
EnforceWages ==
  /\ pc = "wages"
  /\ df' = EnforceWagesAll(table)
  /\ columns' = OptionalColumns(table.header)
  /\ pc' = "start"
  /\ UNCHANGED <<mappings, overrides, start_date, end_date, Valor, Tipo,
                 Valor_Num, file_content, table, error, calls, filtered_df,
                 month_strs, line_values, specific_mappings,
                 generic_mappings, i, matched_mapping, raised, j, lv_derived,
                 headers, rows>>
  /\ UNCHANGED <<previous, months_ahead, models, response, drill>>

\* every column under its canonical name
FullHeader ==
  << [name |-> <<"Data de competência">>, field |-> "date"],
     [name |-> <<"Valor (R$)">>, field |-> "valor"],
     [name |-> <<"Tipo">>, field |-> "tipo"],
     [name |-> <<"Centro de Custo 1">>, field |-> "cc"],
     [name |-> <<"Nome do fornecedor/cliente">>, field |-> "supp"],
     [name |-> <<"Categoria 1">>, field |-> "cat"],
     [name |-> <<"Descrição">>, field |-> "desc"] >>

\* the required columns only
PlainHeader ==
  << [name |-> <<"Data de competência">>, field |-> "date"],
     [name |-> <<"Valor (R$)">>, field |-> "valor"],
     [name |-> <<"Centro de Custo 1">>, field |-> "cc"],
     [name |-> <<"Nome do fornecedor/cliente">>, field |-> "supp"] >>

\* layouts with aliases, two aliases of one column, padded names, missing
\* columns and labels that collide once stripped
HeaderPool ==
  { FullHeader, PlainHeader,
    << [name |-> <<"Data de competência">>, field |-> "date"],
       [name |-> <<"Valor">>, field |-> "valor"],
       [name |-> <<"Natureza">>, field |-> "tipo"],
       [name |-> <<"Centro de Custo">>, field |-> "cc"],
       [name |-> <<"Fornecedor">>, field |-> "supp"],
       [name |-> <<"Categoria 1">>, field |-> "cat"] >>,
    << [name |-> <<"Data de competência">>, field |-> "date"],
       [name |-> <<"VALOR">>, field |-> "valor_alt"],
       [name |-> <<"valor">>, field |-> "valor"],
       [name |-> <<"Centro de Custo 1">>, field |-> "cc"],
       [name |-> <<"Cliente">>, field |-> "supp_alt"],
       [name |-> <<"Fornecedor">>, field |-> "supp"] >>,
    << [name |-> <<"Data">>, field |-> "date"],
       [name |-> <<"Valor (R$)">>, field |-> "valor"],
       [name |-> <<"Tipo">>, field |-> "tipo"],
       [name |-> <<"Centro de Custo 1">>, field |-> "cc"],
       [name |-> <<"Nome do fornecedor/cliente">>, field |-> "supp"] >>,
    << [name |-> <<"Data de competência">>, field |-> "date"],
       [name |-> <<" ", "Valor (R$)">>, field |-> "valor"],
       [name |-> <<"Tipo", " ">>, field |-> "tipo"],
       [name |-> <<"Centro de Custo 1">>, field |-> "cc"],
       [name |-> <<"Nome do fornecedor/cliente">>, field |-> "supp"] >>,
    << [name |-> <<" ", "Data de competência">>, field |-> "date"],
       [name |-> <<"Valor (R$)">>, field |-> "valor"],
       [name |-> <<"Centro de Custo 1">>, field |-> "cc"],
       [name |-> <<"Nome do fornecedor/cliente">>, field |-> "supp"] >>,
    << [name |-> <<"Data de competência">>, field |-> "date"],
       [name |-> <<"Centro de Custo 1">>, field |-> "cc"],
       [name |-> <<"Nome do fornecedor/cliente">>, field |-> "supp"] >>,
    << [name |-> <<"Data de competência">>, field |-> "date"],
       [name |-> <<"Valor (R$)">>, field |-> "valor"],
       [name |-> <<"Tipo">>, field |-> "tipo"] >>,
    << [name |-> <<"Data de competência">>, field |-> "date"],
       [name |-> <<"Valor (R$)">>, field |-> "valor"],
       [name |-> <<"Tipo">>, field |-> "tipo"],
       [name |-> <<"Tipo", " ">>, field |-> "tipo"],
       [name |-> <<"Centro de Custo 1">>, field |-> "cc"],
       [name |-> <<"Nome do fornecedor/cliente">>, field |-> "supp"] >>,
    << [name |-> <<"Data de competência">>, field |-> "date"] >>,
    << [name |-> <<"Data de competência">>, field |-> "date"],
       [name |-> <<"Valor (R$)">>, field |-> "valor"],
       [name |-> <<"Valor">>, field |-> "valor_alt"],
       [name |-> <<"Centro de Custo 1">>, field |-> "cc"],
       [name |-> <<"Nome do fornecedor/cliente">>, field |-> "supp"] >>,
    << [name |-> <<"Data de competência">>, field |-> "date"],
       [name |-> <<"Valor">>, field |-> "valor"],
       [name |-> <<" ", "Valor">>, field |-> "valor_alt"],
       [name |-> <<"Centro de Custo 1">>, field |-> "cc"],
       [name |-> <<"Nome do fornecedor/cliente">>, field |-> "supp"] >> }

\* the cells a line offers to the columns of a layout
UploadRowPool ==
  { [date |-> <<"3", "1", "/", "0", "1", "/", "2", "0", "2", "4">>, valor |-> <<"1">>, valor_alt |-> <<"9">>, tipo |-> <<"E", "n", "t", "r", "a", "d", "a">>,
     cc |-> <<"g">>, supp |-> <<"q">>, supp_alt |-> <<"z", "z">>,
     cat |-> <<"c">>, desc |-> NaN],
    [date |-> <<"2", "0", "2", "4", "-", "0", "2", "-", "1", "5">>, valor |-> <<"2", ",", "0", "0">>, valor_alt |-> <<"9">>, tipo |-> <<"S", "a", "í", "d", "a">>,
     cc |-> <<"w">>, supp |-> <<"a">>, supp_alt |-> <<"z", "z">>,
     cat |-> <<"S", "a", "l", "á", "r", "i", "o">>, desc |-> NaN],
    [date |-> <<"1", "2", "/", "2", "5", "/", "2", "0", "2", "4">>, valor |-> <<"(", "1", ")">>, valor_alt |-> <<"9">>, tipo |-> NaN,
     cc |-> <<"W", "a", "g", "e", "s", " ", "E", "x", "p", "e", "n", "s", "e", "s", " ">>, supp |-> <<"q">>, supp_alt |-> <<"z", "z">>,
     cat |-> NaN, desc |-> NaN],
    [date |-> <<"3", "1", "/", "0", "2", "/", "2", "0", "2", "4">>, valor |-> <<"1">>, valor_alt |-> <<"9">>, tipo |-> <<"E", "n", "t", "r", "a", "d", "a">>,
     cc |-> <<"g">>, supp |-> <<"F", "o", "l", "h", "a">>, supp_alt |-> <<"z", "z">>,
     cat |-> <<"c">>, desc |-> NaN],
    [date |-> NaN, valor |-> <<"x">>, valor_alt |-> <<"9">>, tipo |-> <<"S", "a", "í", "d", "a">>,
     cc |-> NaN, supp |-> <<"a">>, supp_alt |-> <<"z", "z">>,
     cat |-> NaN, desc |-> <<"x">>],
    [date |-> <<"0", "5", "-", "0", "3", "-", "2", "0", "2", "4">>, valor |-> <<"2">>, valor_alt |-> <<"9">>, tipo |-> <<"S", "a", "í", "d", "a">>,
     cc |-> <<"p", "r", "o">>, supp |-> <<"q">>, supp_alt |-> <<"z", "z">>,
     cat |-> <<"l", "a", "b", "o", "r", "e">>, desc |-> NaN],
    [date |-> <<"1", "/", "2", "/", "2", "0", "2", "4">>, valor |-> <<"1", ".", "0", "0", "0">>, valor_alt |-> <<"9">>, tipo |-> <<"S", "a", "í", "d", "a">>,
     cc |-> <<"w">>, supp |-> <<"a", "b">>, supp_alt |-> <<"z", "z">>,
     cat |-> NaN, desc |-> <<"x", " ", "p", "a", "y", "r", "o", "l", "l">>] }

LineOf(header, r, isbad) ==
  [cells |-> [k \in 1..Len(header) |-> r[header[k].field]], bad |-> isbad]

File(enc, sep, header, rs, badset) ==
  [encoding |-> enc, sep |-> sep,
   header |-> [k \in 1..Len(header) |-> header[k].name],
   lines |-> [k \in 1..Len(rs) |-> LineOf(header, rs[k], k \in badset)]]

SampleRow == CHOOSE r \in UploadRowPool : r.date = <<"3", "1", "/", "0", "1", "/", "2", "0", "2", "4">> /\ r.cc = <<"g">>

SampleFile == File("utf-8", ",", FullHeader, <<SampleRow>>, {})

\* files of every encoding and delimiter and of every layout, with no
\* line, good lines and bad lines; and well-formed files of every choice of
\* lines
FilePool ==
  { File(enc, sep, FullHeader, rs[1], rs[2]) :
      enc \in {"utf-8", "latin-1", "utf-16"}, sep \in {",", ";", "\t", "|"},
      rs \in { <<<<>>, {}>>, <<<<SampleRow>>, {}>>, <<<<SampleRow>>, {1}>>,
               <<<<SampleRow, SampleRow>>, {2}>> } }
  \cup
  { File("utf-8", sep, h, rs, {}) :
      sep \in {",", "|"}, h \in HeaderPool, rs \in {<<>>, <<SampleRow>>} }
  \cup
  { File("utf-8", ",", FullHeader, rs, {}) : rs \in SeqsUpTo(UploadRowPool, MaxLines) }
  \cup
  { File("utf-8", ",", PlainHeader, <<r>>, {}) : r \in UploadRowPool }

\* rule sets with and without a rule for the payroll cost center, and with
\* rules keyed by a category
UploadMappings ==
  { << Rule(<<"g">>, <<>>, <<"2", "5">>),
       Rule(<<"W", "a", "g", "e", "s", " ", "E", "x", "p", "e", "n", "s", "e", "s">>, <<"D", "i", "v", "e", "r", "s", "o", "s">>, <<"6", "2">>),
       Rule(<<"w">>, <<"a">>, <<"4", "3">>),
       Rule(<<"S", "a", "l", "á", "r", "i", "o">>, <<>>, <<"9", "0">>) >>,
    << Rule(<<"g">>, <<>>, <<"2", "5">>),
       Rule(<<"w", "a", "g", "e", "s", " ", "e", "x", "p", "e", "n", "s", "e", "s">>, <<"a", "b">>, <<"6", "2">>),
       Rule(<<"s", "a", "l", "a", "r", "i", "o">>, <<>>, <<"9", "0">>),
       Rule(<<"c">>, <<>>, <<"5", "6">>) >> }

UploadOverrides ==
  { <<>>, << Item(<<"1", "0", "0">>, (2024 * 12 + 1 :> 70000)) >> }

\* the caller keeps what the call returned and calls again, with the same
\* bytes and rules or with others; what the previous call left in the engine
\* is still there
CallAgain ==
  /\ pc \in {"done", "failed"}
  /\ calls < MaxCalls
  /\ calls' = calls + 1
  /\ previous' = [file_content |-> file_content, mappings |-> mappings,
                  overrides |-> overrides, failed |-> pc = "failed",
                  headers |-> headers, rows |-> rows]
  /\ file_content' \in {file_content, SampleFile}
  /\ mappings' \in UploadMappings
  /\ file_content' = file_content => mappings' = mappings
  /\ pc' = "upload"
  /\ error' = <<>>
  /\ i' = 1
  /\ j' = 1
  /\ UNCHANGED <<df, overrides, columns, start_date, end_date, Valor, Tipo,
                 Valor_Num, table, filtered_df, month_strs, line_values,
                 specific_mappings, generic_mappings, matched_mapping,
                 raised, lv_derived, headers, rows>>
  /\ UNCHANGED <<months_ahead, models, response, drill>>

NextUpload ==
  \/ Detect \/ Reconcile \/ Clean \/ EnforceWages
  \/ Start \/ LoopRow \/ Derive \/ Override \/ BuildRows
  \/ CallAgain

InitUpload ==
  /\ file_content \in FilePool
  /\ mappings \in UploadMappings
  /\ overrides \in UploadOverrides
  /\ overrides # <<>> => file_content = SampleFile
  /\ table = <<>>
  /\ error = <<>>
  /\ calls = 1
  /\ previous = <<>>
  /\ NoForecast
  /\ pc = "upload"
  /\ df = <<>>
  /\ columns = {}
  /\ start_date = NaT
  /\ end_date = NaT
  /\ InitLocals
  /\ NoValue
  /\ NoDrill

SpecUpload == InitUpload /\ [][NextUpload]_vars

(***************************************************************************)
(* calculate_forecast: calculate_pnl on the table, then a least-squares    *)
(* line through the revenue and the EBITDA of the months, read at the      *)
(* months that follow.  A fitted line and a prediction are kept as exact   *)
(* fractions; the error of the floating-point solver is outside the model. *)
(***************************************************************************)
MaxMonths == 4

MaxAhead == 2

\* get_line_series(line_number): the cells of a row, month by month
get_line_series(hs, rs, line_number) ==
  [k \in 1..Len(hs) |-> rs[line_number][hs[k]]]

\* LinearRegression().fit(X, series) with X = 0, 1, ..., n - 1: the slope is
\* slope_num / D and the line passes through the means
fit(series) ==
  LET n == Len(series)
      Sx == (n * (n - 1)) \div 2
      Sxx == ((n - 1) * n * (2 * n - 1)) \div 6
      S[k \in 0..n] == IF k = 0 THEN 0 ELSE S[k - 1] + series[k]
      T[k \in 0..n] == IF k = 0 THEN 0 ELSE T[k - 1] + (k - 1) * series[k]
  IN  [n |-> n, Sx |-> Sx, Sy |-> S[n],
       slope_num |-> n * T[n] - Sx * S[n], D |-> n * Sxx - Sx * Sx]

\* model.predict at x, as the fraction num / den
predict(model, x) ==
  [num |-> model.D * model.Sy + model.slope_num * (model.n * x - model.Sx),
   den |-> model.n * model.D]

\* round(float(pred), 2): the nearest hundredth, the even one of two
round2(p) ==
  LET den == p.den * (Unit \div 100)
      q == p.num \div den
      r == p.num % den
  IN  (Unit \div 100) *
        (IF 2 * r > den \/ (2 * r = den /\ q % 2 = 1) THEN q + 1 ELSE q)

\* str(period) and pd.Period(text, freq='M')
MonthStr(period) ==
  [year |-> (period - 1) \div 12, month |-> ((period - 1) % 12) + 1]

Period(month_str) == month_str.year * 12 + month_str.month

\* the k-th entry of forecast_data (k = i + 1)
ForecastEntry(ms, last_month_str, k) ==
  LET pred_rev == round2(predict(ms.rev, ms.rev.n - 1 + k))
  IN  [month |-> MonthStr(Period(last_month_str) + k),
       revenue |-> IF 0 >= pred_rev THEN 0 ELSE pred_rev,
       ebitda |-> round2(predict(ms.ebitda, ms.ebitda.n - 1 + k)),
       is_forecast |-> TRUE]

Warning ==
  "Not enough data for reliable forecast (need 3+ months)"

\* `if df is None: return {"forecast": []}`; the empty sequence stands for
\* no table as well as for a table of no rows
ForecastNone ==
  /\ pc = "start"
  /\ df = <<>>
  /\ response' = [forecast |-> <<>>]
  /\ pc' = "returned"
  /\ UNCHANGED <<inputs, Valor, Tipo, Valor_Num, file_content, table, error,
                 calls, previous, months_ahead, models, filtered_df,
                 month_strs, line_values, specific_mappings,
                 generic_mappings, i, matched_mapping, raised, j, lv_derived,
                 headers, rows, drill>>

\* calculate_pnl has returned: the two early returns, or the two fits
ForecastFit ==
  /\ pc = "done"
  /\ IF headers = <<>>
     THEN /\ response' = [forecast |-> <<>>]
          /\ pc' = "returned"
          /\ UNCHANGED models
     ELSE IF Len(headers) < 3
     THEN /\ response' = [forecast |-> <<>>, warning |-> Warning]
          /\ pc' = "returned"
          /\ UNCHANGED models
     ELSE /\ models' = [rev |-> fit(get_line_series(headers, rows, 1)),
                        ebitda |-> fit(get_line_series(headers, rows, 13))]
          /\ pc' = "fitted"
          /\ UNCHANGED response
  /\ UNCHANGED <<inputs, Valor, Tipo, Valor_Num, file_content, table, error,
                 calls, previous, months_ahead, filtered_df, month_strs,
                 line_values, specific_mappings, generic_mappings, i,
                 matched_mapping, raised, j, lv_derived, headers, rows, drill>>

\* predict and the loop over range(months_ahead); predict raises ValueError
\* on an array of no sample
ForecastPredict ==
  /\ pc = "fitted"
  /\ IF months_ahead <= 0
     THEN /\ raised' = TRUE
          /\ pc' = "raised"
          /\ UNCHANGED response
     ELSE /\ response' =
               [forecast |->
                  [k \in 1..months_ahead |->
                     ForecastEntry(models, MonthStr(headers[Len(headers)]), k)]]
          /\ pc' = "returned"
          /\ UNCHANGED raised
  /\ UNCHANGED <<inputs, Valor, Tipo, Valor_Num, file_content, table, error,
                 calls, previous, months_ahead, models, filtered_df,
                 month_strs, line_values, specific_mappings,
                 generic_mappings, i, matched_mapping, j, lv_derived,
                 headers, rows, drill>>

NextForecast ==
  \/ ForecastNone
  \/ Start \/ LoopRow \/ Derive \/ Override \/ BuildRows
  \/ ForecastFit \/ ForecastPredict

FirstMonth == 2024 * 12 + 10

\* what a month holds: high revenue, low revenue, a cost and no revenue
MonthPool ==
  { <<[cc |-> <<"g">>, val |-> 5 * Unit]>>,
    <<[cc |-> <<"g">>, val |-> Unit]>>,
    <<[cc |-> <<"s">>, val |-> 0 - 2 * Unit]>> }

RECURSIVE ForecastFrame(_, _)
ForecastFrame(profile, k) ==
  IF k > Len(profile) THEN <<>>
  ELSE [n \in 1..Len(profile[k]) |->
          LedgerRow(profile[k][n].cc, <<"q">>, profile[k][n].val,
                    FirstMonth + k - 1)]
         \o ForecastFrame(profile, k + 1)

\* no table, the tables of 0 to MaxMonths months in a row, and a table
\* whose only row has no date
ForecastFrames ==
  {<<LedgerRow(<<"g">>, <<"q">>, Unit, NaT)>>}
    \cup {ForecastFrame(p, 1) : p \in SeqsUpTo(MonthPool, MaxMonths)}

InitForecast ==
  /\ df \in ForecastFrames
  /\ mappings = LedgerMappings
  /\ overrides = <<>>
  /\ columns = AllColumns
  /\ start_date = NaT
  /\ end_date = NaT
  /\ months_ahead \in 0..MaxAhead
  /\ models = <<>>
  /\ response = <<>>
  /\ pc = "start"
  /\ InitLocals
  /\ NoValue
  /\ NoUpload
  /\ NoDrill

SpecForecast == InitForecast /\ [][NextForecast]_vars

(***************************************************************************)
(* The default rule set, and the pipeline on the one-line files of          *)
(* test_cost_center_normalization.py                                       *)
(***************************************************************************)
get_initial_mappings ==
  << Rule(<<"G", "o", "o", "g", "l", "e", " ", "P", "l", "a", "y", " ", "N", "e", "t", " ", "R", "e", "v", "e", "n", "u", "e">>,
       <<"G", "O", "O", "G", "L", "E", " ", "B", "R", "A", "S", "I", "L", " ", "P", "A", "G", "A", "M", "E", "N", "T", "O", "S", " ", "L", "T", "D", "A">>, <<"2", "5">>),
     Rule(<<"A", "p", "p", " ", "S", "t", "o", "r", "e", " ", "N", "e", "t", " ", "R", "e", "v", "e", "n", "u", "e">>,
       <<"A", "p", "p", " ", "S", "t", "o", "r", "e", " ", "(", "A", "p", "p", "l", "e", ")">>, <<"3", "3">>),
     Rule(<<"R", "e", "n", "d", "i", "m", "e", "n", "t", "o", "s", " ", "d", "e", " ", "A", "p", "l", "i", "c", "a", "ç", "õ", "e", "s">>,
       <<"C", "O", "N", "T", "A", " ", "S", "I", "M", "P", "L", "E", "S">>, <<"3", "8">>),
     Rule(<<"R", "e", "n", "d", "i", "m", "e", "n", "t", "o", "s", " ", "d", "e", " ", "A", "p", "l", "i", "c", "a", "ç", "õ", "e", "s">>,
       <<"B", "A", "N", "C", "O", " ", "I", "N", "T", "E", "R">>, <<"3", "8">>),
     Rule(<<"W", "e", "b", " ", "S", "e", "r", "v", "i", "c", "e", "s", " ", "E", "x", "p", "e", "n", "s", "e", "s">>,
       <<"A", "W", "S">>, <<"4", "3">>),
     Rule(<<"W", "e", "b", " ", "S", "e", "r", "v", "i", "c", "e", "s", " ", "E", "x", "p", "e", "n", "s", "e", "s">>,
       <<"C", "l", "o", "u", "d", "f", "l", "a", "r", "e">>, <<"4", "4">>),
     Rule(<<"W", "e", "b", " ", "S", "e", "r", "v", "i", "c", "e", "s", " ", "E", "x", "p", "e", "n", "s", "e", "s">>,
       <<"H", "e", "r", "o", "k", "u">>, <<"4", "5">>),
     Rule(<<"W", "e", "b", " ", "S", "e", "r", "v", "i", "c", "e", "s", " ", "E", "x", "p", "e", "n", "s", "e", "s">>,
       <<"I", "A", "P", "H", "U", "B">>, <<"4", "6">>),
     Rule(<<"W", "e", "b", " ", "S", "e", "r", "v", "i", "c", "e", "s", " ", "E", "x", "p", "e", "n", "s", "e", "s">>,
       <<"M", "a", "i", "l", "G", "u", "n">>, <<"4", "7">>),
     Rule(<<"W", "e", "b", " ", "S", "e", "r", "v", "i", "c", "e", "s", " ", "E", "x", "p", "e", "n", "s", "e", "s">>,
       <<"A", "W", "S", " ", "S", "E", "S">>, <<"4", "8">>),
     Rule(<<"W", "e", "b", " ", "S", "e", "r", "v", "i", "c", "e", "s", " ", "E", "x", "p", "e", "n", "s", "e", "s">>,
       <<"D", "i", "v", "e", "r", "s", "o", "s">>, <<"4", "3">>),
     Rule(<<"M", "a", "r", "k", "e", "t", "i", "n", "g", " ", "&", " ", "G", "r", "o", "w", "t", "h", " ", "E", "x", "p", "e", "n", "s", "e", "s">>,
       <<"M", "G", "A", " ", "M", "A", "R", "K", "E", "T", "I", "N", "G", " ", "L", "T", "D", "A">>, <<"5", "6">>),
     Rule(<<"M", "a", "r", "k", "e", "t", "i", "n", "g", " ", "&", " ", "G", "r", "o", "w", "t", "h", " ", "E", "x", "p", "e", "n", "s", "e", "s">>,
       <<"D", "i", "v", "e", "r", "s", "o", "s">>, <<"5", "6">>),
     Rule(<<"W", "a", "g", "e", "s", " ", "E", "x", "p", "e", "n", "s", "e", "s">>,
       <<"D", "i", "v", "e", "r", "s", "o", "s">>, <<"6", "2">>),
     Rule(<<"T", "e", "c", "h", " ", "S", "u", "p", "p", "o", "r", "t", " ", "&", " ", "S", "e", "r", "v", "i", "c", "e", "s">>,
       <<"A", "d", "o", "b", "e">>, <<"6", "8">>),
     Rule(<<"T", "e", "c", "h", " ", "S", "u", "p", "p", "o", "r", "t", " ", "&", " ", "S", "e", "r", "v", "i", "c", "e", "s">>,
       <<"C", "a", "n", "v", "a">>, <<"6", "8">>),
     Rule(<<"T", "e", "c", "h", " ", "S", "u", "p", "p", "o", "r", "t", " ", "&", " ", "S", "e", "r", "v", "i", "c", "e", "s">>,
       <<"C", "l", "i", "c", "k", "S", "i", "g", "n">>, <<"6", "8">>),
     Rule(<<"T", "e", "c", "h", " ", "S", "u", "p", "p", "o", "r", "t", " ", "&", " ", "S", "e", "r", "v", "i", "c", "e", "s">>,
       <<"C", "O", "M", "P", "A", "N", "Y", "H", "E", "R", "O">>, <<"6", "8">>),
     Rule(<<"T", "e", "c", "h", " ", "S", "u", "p", "p", "o", "r", "t", " ", "&", " ", "S", "e", "r", "v", "i", "c", "e", "s">>,
       <<"D", "i", "v", "e", "r", "s", "o", "s">>, <<"6", "5">>),
     Rule(<<"L", "e", "g", "a", "l", " ", "&", " ", "A", "c", "c", "o", "u", "n", "t", "i", "n", "g", " ", "E", "x", "p", "e", "n", "s", "e", "s">>,
       <<"B", "H", "U", "B", ".", "A", "I">>, <<"9", "0">>),
     Rule(<<"L", "e", "g", "a", "l", " ", "&", " ", "A", "c", "c", "o", "u", "n", "t", "i", "n", "g", " ", "E", "x", "p", "e", "n", "s", "e", "s">>,
       <<"W", "O", "L", "F", "F">>, <<"9", "0">>),
     Rule(<<"L", "e", "g", "a", "l", " ", "&", " ", "A", "c", "c", "o", "u", "n", "t", "i", "n", "g", " ", "E", "x", "p", "e", "n", "s", "e", "s">>,
       <<"D", "i", "v", "e", "r", "s", "o", "s">>, <<"9", "0">>),
     Rule(<<"O", "f", "f", "i", "c", "e", " ", "E", "x", "p", "e", "n", "s", "e", "s">>,
       <<"G", "O", " ", "O", "F", "F", "I", "C", "E", "S">>, <<"9", "0">>),
     Rule(<<"O", "f", "f", "i", "c", "e", " ", "E", "x", "p", "e", "n", "s", "e", "s">>,
       <<"C", "O", "-", "S", "E", "R", "V", "I", "C", "E", "S">>, <<"9", "0">>),
     Rule(<<"O", "f", "f", "i", "c", "e", " ", "E", "x", "p", "e", "n", "s", "e", "s">>,
       <<"D", "i", "v", "e", "r", "s", "o", "s">>, <<"9", "0">>),
     Rule(<<"T", "r", "a", "v", "e", "l">>,
       <<"A", "m", "e", "r", "i", "c", "a", "n", " ", "A", "i", "r", "l", "i", "n", "e", "s">>, <<"9", "0">>),
     Rule(<<"T", "r", "a", "v", "e", "l">>,
       <<"D", "i", "v", "e", "r", "s", "o", "s">>, <<"9", "0">>),
     Rule(<<"O", "t", "h", "e", "r", " ", "T", "a", "x", "e", "s">>,
       <<"I", "M", "P", "O", "S", "T", "O", "S", "/", "T", "R", "I", "B", "U", "T", "O", "S">>, <<"9", "0">>),
     Rule(<<"O", "t", "h", "e", "r", " ", "T", "a", "x", "e", "s">>,
       <<"D", "i", "v", "e", "r", "s", "o", "s">>, <<"9", "0">>),
     Rule(<<"P", "a", "y", "r", "o", "l", "l", " ", "T", "a", "x", " ", "-", " ", "B", "r", "a", "z", "i", "l">>,
       <<"I", "M", "P", "O", "S", "T", "O", "S", "/", "T", "R", "I", "B", "U", "T", "O", "S">>, <<"9", "0">>),
     Rule(<<"P", "a", "y", "r", "o", "l", "l", " ", "T", "a", "x", " ", "-", " ", "B", "r", "a", "z", "i", "l">>,
       <<"D", "i", "v", "e", "r", "s", "o", "s">>, <<"9", "0">>),
     Rule(<<"O", "t", "h", "e", "r", " ", "E", "x", "p", "e", "n", "s", "e", "s">>,
       <<"D", "i", "v", "e", "r", "s", "o", "s">>, <<"9", "0">>),
     Rule(<<"I", "d", "e", "n", "t", "i", "f", "i", "c", "a", "r">>,
       <<"D", "i", "v", "e", "r", "s", "o", "s">>, <<"9", "0">>),
     Rule(<<"D", "e", "v", "o", "l", "u", "ç", "õ", "e", "s", " ", "e", " ", "E", "s", "t", "o", "r", "n", "o", "s">>,
       <<"D", "i", "v", "e", "r", "s", "o", "s">>, <<"9", "0">>) >>

\* the header line of the files of the tests
TestHeader ==
  << [name |-> <<"Data de competência">>, field |-> "date"],
     [name |-> <<"Valor (R$)">>, field |-> "valor"],
     [name |-> <<"Tipo">>, field |-> "tipo"],
     [name |-> <<"Centro de Custo 1">>, field |-> "cc"],
     [name |-> <<"Nome do fornecedor/cliente">>, field |-> "supp"],
     [name |-> <<"Categoria 1">>, field |-> "cat"] >>

\* the data lines of csv_variations and revenue_tests: every cost center
\* name of a group, canonical or not, with the counterparties of the group
VariantLines ==
  { [date |-> <<"3", "1", "/", "0", "1", "/", "2", "0", "2", "4">>, valor |-> <<"-", "5", ".", "0", "0">>,
     valor_alt |-> <<>>, tipo |-> <<"S", "a", "í", "d", "a">>,
     cc |-> <<"T", "e", "c", "h", " ", "S", "u", "p", "p", "o", "r", "t", " ", "&", " ", "S", "e", "r", "v", "i", "c", "e", "s">>,
     supp |-> <<"Z", "E", "N", "D", "E", "S", "K">>, supp_alt |-> <<>>,
     cat |-> <<"S", "u", "p", "o", "r", "t", "e">>, desc |-> NaN],
    [date |-> <<"3", "1", "/", "0", "1", "/", "2", "0", "2", "4">>, valor |-> <<"-", "5", ".", "0", "0">>,
     valor_alt |-> <<>>, tipo |-> <<"S", "a", "í", "d", "a">>,
     cc |-> <<"T", "e", "c", "h", " ", "S", "u", "p", "p", "o", "r", "t", " ", "&", " ", "S", "e", "r", "v", "i", "c", "e", "s">>,
     supp |-> <<"A", "d", "o", "b", "e">>, supp_alt |-> <<>>,
     cat |-> <<"S", "u", "p", "o", "r", "t", "e">>, desc |-> NaN],
    [date |-> <<"3", "1", "/", "0", "1", "/", "2", "0", "2", "4">>, valor |-> <<"-", "5", ".", "0", "0">>,
     valor_alt |-> <<>>, tipo |-> <<"S", "a", "í", "d", "a">>,
     cc |-> <<"T", "e", "c", "h", " ", "S", "u", "p", "p", "o", "r", "t">>,
     supp |-> <<"Z", "E", "N", "D", "E", "S", "K">>, supp_alt |-> <<>>,
     cat |-> <<"S", "u", "p", "o", "r", "t", "e">>, desc |-> NaN],
    [date |-> <<"3", "1", "/", "0", "1", "/", "2", "0", "2", "4">>, valor |-> <<"-", "5", ".", "0", "0">>,
     valor_alt |-> <<>>, tipo |-> <<"S", "a", "í", "d", "a">>,
     cc |-> <<"T", "e", "c", "h", " ", "S", "u", "p", "p", "o", "r", "t">>,
     supp |-> <<"A", "d", "o", "b", "e">>, supp_alt |-> <<>>,
     cat |-> <<"S", "u", "p", "o", "r", "t", "e">>, desc |-> NaN],
    [date |-> <<"3", "1", "/", "0", "1", "/", "2", "0", "2", "4">>, valor |-> <<"-", "5", ".", "0", "0">>,
     valor_alt |-> <<>>, tipo |-> <<"S", "a", "í", "d", "a">>,
     cc |-> <<"T", "e", "c", "h", "n", "i", "c", "a", "l", " ", "S", "u", "p", "p", "o", "r", "t">>,
     supp |-> <<"Z", "E", "N", "D", "E", "S", "K">>, supp_alt |-> <<>>,
     cat |-> <<"S", "u", "p", "o", "r", "t", "e">>, desc |-> NaN],
    [date |-> <<"3", "1", "/", "0", "1", "/", "2", "0", "2", "4">>, valor |-> <<"-", "5", ".", "0", "0">>,
     valor_alt |-> <<>>, tipo |-> <<"S", "a", "í", "d", "a">>,
     cc |-> <<"T", "e", "c", "h", "n", "i", "c", "a", "l", " ", "S", "u", "p", "p", "o", "r", "t">>,
     supp |-> <<"A", "d", "o", "b", "e">>, supp_alt |-> <<>>,
     cat |-> <<"S", "u", "p", "o", "r", "t", "e">>, desc |-> NaN],
    [date |-> <<"3", "1", "/", "0", "1", "/", "2", "0", "2", "4">>, valor |-> <<"-", "1", "0", ".", "0", "0">>,
     valor_alt |-> <<>>, tipo |-> <<"S", "a", "í", "d", "a">>,
     cc |-> <<"M", "a", "r", "k", "e", "t", "i", "n", "g", " ", "&", " ", "G", "r", "o", "w", "t", "h", " ", "E", "x", "p", "e", "n", "s", "e", "s">>,
     supp |-> <<"G", "O", "O", "G", "L", "E", " ", "A", "D", "S">>, supp_alt |-> <<>>,
     cat |-> <<"M", "a", "r", "k", "e", "t", "i", "n", "g">>, desc |-> NaN],
    [date |-> <<"3", "1", "/", "0", "1", "/", "2", "0", "2", "4">>, valor |-> <<"-", "1", "0", ".", "0", "0">>,
     valor_alt |-> <<>>, tipo |-> <<"S", "a", "í", "d", "a">>,
     cc |-> <<"M", "a", "r", "k", "e", "t", "i", "n", "g", " ", "&", " ", "G", "r", "o", "w", "t", "h", " ", "E", "x", "p", "e", "n", "s", "e", "s">>,
     supp |-> <<"D", "i", "v", "e", "r", "s", "o", "s">>, supp_alt |-> <<>>,
     cat |-> <<"M", "a", "r", "k", "e", "t", "i", "n", "g">>, desc |-> NaN],
    [date |-> <<"3", "1", "/", "0", "1", "/", "2", "0", "2", "4">>, valor |-> <<"-", "1", "0", ".", "0", "0">>,
     valor_alt |-> <<>>, tipo |-> <<"S", "a", "í", "d", "a">>,
     cc |-> <<"M", "a", "r", "k", "e", "t", "i", "n", "g">>,
     supp |-> <<"G", "O", "O", "G", "L", "E", " ", "A", "D", "S">>, supp_alt |-> <<>>,
     cat |-> <<"M", "a", "r", "k", "e", "t", "i", "n", "g">>, desc |-> NaN],
    [date |-> <<"3", "1", "/", "0", "1", "/", "2", "0", "2", "4">>, valor |-> <<"-", "1", "0", ".", "0", "0">>,
     valor_alt |-> <<>>, tipo |-> <<"S", "a", "í", "d", "a">>,
     cc |-> <<"M", "a", "r", "k", "e", "t", "i", "n", "g">>,
     supp |-> <<"D", "i", "v", "e", "r", "s", "o", "s">>, supp_alt |-> <<>>,
     cat |-> <<"M", "a", "r", "k", "e", "t", "i", "n", "g">>, desc |-> NaN],
    [date |-> <<"3", "1", "/", "0", "1", "/", "2", "0", "2", "4">>, valor |-> <<"-", "1", "0", ".", "0", "0">>,
     valor_alt |-> <<>>, tipo |-> <<"S", "a", "í", "d", "a">>,
     cc |-> <<"M", "a", "r", "k", "e", "t", "i", "n", "g", " ", "E", "x", "p", "e", "n", "s", "e", "s">>,
     supp |-> <<"G", "O", "O", "G", "L", "E", " ", "A", "D", "S">>, supp_alt |-> <<>>,
     cat |-> <<"M", "a", "r", "k", "e", "t", "i", "n", "g">>, desc |-> NaN],
    [date |-> <<"3", "1", "/", "0", "1", "/", "2", "0", "2", "4">>, valor |-> <<"-", "1", "0", ".", "0", "0">>,
     valor_alt |-> <<>>, tipo |-> <<"S", "a", "í", "d", "a">>,
     cc |-> <<"M", "a", "r", "k", "e", "t", "i", "n", "g", " ", "E", "x", "p", "e", "n", "s", "e", "s">>,
     supp |-> <<"D", "i", "v", "e", "r", "s", "o", "s">>, supp_alt |-> <<>>,
     cat |-> <<"M", "a", "r", "k", "e", "t", "i", "n", "g">>, desc |-> NaN],
    [date |-> <<"3", "1", "/", "0", "1", "/", "2", "0", "2", "4">>, valor |-> <<"-", "3", "0", ".", "0", "0">>,
     valor_alt |-> <<>>, tipo |-> <<"S", "a", "í", "d", "a">>,
     cc |-> <<"W", "a", "g", "e", "s", " ", "E", "x", "p", "e", "n", "s", "e", "s">>,
     supp |-> <<"D", "i", "v", "e", "r", "s", "o", "s">>, supp_alt |-> <<>>,
     cat |-> <<"P", "e", "s", "s", "o", "a", "l">>, desc |-> NaN],
    [date |-> <<"3", "1", "/", "0", "1", "/", "2", "0", "2", "4">>, valor |-> <<"-", "3", "0", ".", "0", "0">>,
     valor_alt |-> <<>>, tipo |-> <<"S", "a", "í", "d", "a">>,
     cc |-> <<"W", "a", "g", "e", "s">>,
     supp |-> <<"D", "i", "v", "e", "r", "s", "o", "s">>, supp_alt |-> <<>>,
     cat |-> <<"P", "e", "s", "s", "o", "a", "l">>, desc |-> NaN],
    [date |-> <<"3", "1", "/", "0", "1", "/", "2", "0", "2", "4">>, valor |-> <<"-", "3", "0", ".", "0", "0">>,
     valor_alt |-> <<>>, tipo |-> <<"S", "a", "í", "d", "a">>,
     cc |-> <<"S", "a", "l", "a", "r", "i", "e", "s">>,
     supp |-> <<"D", "i", "v", "e", "r", "s", "o", "s">>, supp_alt |-> <<>>,
     cat |-> <<"P", "e", "s", "s", "o", "a", "l">>, desc |-> NaN],
    [date |-> <<"3", "1", "/", "0", "1", "/", "2", "0", "2", "4">>, valor |-> <<"-", "3", "0", ".", "0", "0">>,
     valor_alt |-> <<>>, tipo |-> <<"S", "a", "í", "d", "a">>,
     cc |-> <<"S", "a", "l", "á", "r", "i", "o", "s">>,
     supp |-> <<"D", "i", "v", "e", "r", "s", "o", "s">>, supp_alt |-> <<>>,
     cat |-> <<"P", "e", "s", "s", "o", "a", "l">>, desc |-> NaN],
    [date |-> <<"3", "1", "/", "0", "1", "/", "2", "0", "2", "4">>, valor |-> <<"-", "3", "0", ".", "0", "0">>,
     valor_alt |-> <<>>, tipo |-> <<"S", "a", "í", "d", "a">>,
     cc |-> <<"P", "a", "y", "r", "o", "l", "l">>,
     supp |-> <<"D", "i", "v", "e", "r", "s", "o", "s">>, supp_alt |-> <<>>,
     cat |-> <<"P", "e", "s", "s", "o", "a", "l">>, desc |-> NaN],
    [date |-> <<"3", "1", "/", "0", "1", "/", "2", "0", "2", "4">>, valor |-> <<"1", "0", ".", "0", "0">>,
     valor_alt |-> <<>>, tipo |-> <<"E", "n", "t", "r", "a", "d", "a">>,
     cc |-> <<"G", "o", "o", "g", "l", "e", " ", "P", "l", "a", "y", " ", "N", "e", "t", " ", "R", "e", "v", "e", "n", "u", "e">>,
     supp |-> <<"G", "O", "O", "G", "L", "E", " ", "B", "R", "A", "S", "I", "L", " ", "P", "A", "G", "A", "M", "E", "N", "T", "O", "S", " ", "L", "T", "D", "A">>, supp_alt |-> <<>>,
     cat |-> <<"R", "e", "c", "e", "i", "t", "a">>, desc |-> NaN],
    [date |-> <<"3", "1", "/", "0", "1", "/", "2", "0", "2", "4">>, valor |-> <<"1", "0", ".", "0", "0">>,
     valor_alt |-> <<>>, tipo |-> <<"E", "n", "t", "r", "a", "d", "a">>,
     cc |-> <<"G", "o", "o", "g", "l", "e", " ", "P", "l", "a", "y", " ", "N", "e", "t", " ", "R", "e", "v", "e", "n", "u", "e">>,
     supp |-> <<"D", "i", "v", "e", "r", "s", "o", "s">>, supp_alt |-> <<>>,
     cat |-> <<"R", "e", "c", "e", "i", "t", "a">>, desc |-> NaN],
    [date |-> <<"3", "1", "/", "0", "1", "/", "2", "0", "2", "4">>, valor |-> <<"1", "0", ".", "0", "0">>,
     valor_alt |-> <<>>, tipo |-> <<"E", "n", "t", "r", "a", "d", "a">>,
     cc |-> <<"G", "o", "o", "g", "l", "e", " ", "P", "l", "a", "y">>,
     supp |-> <<"G", "O", "O", "G", "L", "E", " ", "B", "R", "A", "S", "I", "L", " ", "P", "A", "G", "A", "M", "E", "N", "T", "O", "S", " ", "L", "T", "D", "A">>, supp_alt |-> <<>>,
     cat |-> <<"R", "e", "c", "e", "i", "t", "a">>, desc |-> NaN],
    [date |-> <<"3", "1", "/", "0", "1", "/", "2", "0", "2", "4">>, valor |-> <<"1", "0", ".", "0", "0">>,
     valor_alt |-> <<>>, tipo |-> <<"E", "n", "t", "r", "a", "d", "a">>,
     cc |-> <<"G", "o", "o", "g", "l", "e", " ", "P", "l", "a", "y">>,
     supp |-> <<"D", "i", "v", "e", "r", "s", "o", "s">>, supp_alt |-> <<>>,
     cat |-> <<"R", "e", "c", "e", "i", "t", "a">>, desc |-> NaN],
    [date |-> <<"3", "1", "/", "0", "1", "/", "2", "0", "2", "4">>, valor |-> <<"1", "0", ".", "0", "0">>,
     valor_alt |-> <<>>, tipo |-> <<"E", "n", "t", "r", "a", "d", "a">>,
     cc |-> <<"G", "o", "o", "g", "l", "e", " ", "P", "l", "a", "y", " ", "R", "e", "v", "e", "n", "u", "e">>,
     supp |-> <<"G", "O", "O", "G", "L", "E", " ", "B", "R", "A", "S", "I", "L", " ", "P", "A", "G", "A", "M", "E", "N", "T", "O", "S", " ", "L", "T", "D", "A">>, supp_alt |-> <<>>,
     cat |-> <<"R", "e", "c", "e", "i", "t", "a">>, desc |-> NaN],
    [date |-> <<"3", "1", "/", "0", "1", "/", "2", "0", "2", "4">>, valor |-> <<"1", "0", ".", "0", "0">>,
     valor_alt |-> <<>>, tipo |-> <<"E", "n", "t", "r", "a", "d", "a">>,
     cc |-> <<"G", "o", "o", "g", "l", "e", " ", "P", "l", "a", "y", " ", "R", "e", "v", "e", "n", "u", "e">>,
     supp |-> <<"D", "i", "v", "e", "r", "s", "o", "s">>, supp_alt |-> <<>>,
     cat |-> <<"R", "e", "c", "e", "i", "t", "a">>, desc |-> NaN],
    [date |-> <<"3", "1", "/", "0", "1", "/", "2", "0", "2", "4">>, valor |-> <<"1", "0", ".", "0", "0">>,
     valor_alt |-> <<>>, tipo |-> <<"E", "n", "t", "r", "a", "d", "a">>,
     cc |-> <<"A", "p", "p", " ", "S", "t", "o", "r", "e", " ", "N", "e", "t", " ", "R", "e", "v", "e", "n", "u", "e">>,
     supp |-> <<"A", "p", "p", " ", "S", "t", "o", "r", "e", " ", "(", "A", "p", "p", "l", "e", ")">>, supp_alt |-> <<>>,
     cat |-> <<"R", "e", "c", "e", "i", "t", "a">>, desc |-> NaN],
    [date |-> <<"3", "1", "/", "0", "1", "/", "2", "0", "2", "4">>, valor |-> <<"1", "0", ".", "0", "0">>,
     valor_alt |-> <<>>, tipo |-> <<"E", "n", "t", "r", "a", "d", "a">>,
     cc |-> <<"A", "p", "p", " ", "S", "t", "o", "r", "e", " ", "N", "e", "t", " ", "R", "e", "v", "e", "n", "u", "e">>,
     supp |-> <<"D", "i", "v", "e", "r", "s", "o", "s">>, supp_alt |-> <<>>,
     cat |-> <<"R", "e", "c", "e", "i", "t", "a">>, desc |-> NaN],
    [date |-> <<"3", "1", "/", "0", "1", "/", "2", "0", "2", "4">>, valor |-> <<"1", "0", ".", "0", "0">>,
     valor_alt |-> <<>>, tipo |-> <<"E", "n", "t", "r", "a", "d", "a">>,
     cc |-> <<"A", "p", "p", " ", "S", "t", "o", "r", "e">>,
     supp |-> <<"A", "p", "p", " ", "S", "t", "o", "r", "e", " ", "(", "A", "p", "p", "l", "e", ")">>, supp_alt |-> <<>>,
     cat |-> <<"R", "e", "c", "e", "i", "t", "a">>, desc |-> NaN],
    [date |-> <<"3", "1", "/", "0", "1", "/", "2", "0", "2", "4">>, valor |-> <<"1", "0", ".", "0", "0">>,
     valor_alt |-> <<>>, tipo |-> <<"E", "n", "t", "r", "a", "d", "a">>,
     cc |-> <<"A", "p", "p", " ", "S", "t", "o", "r", "e">>,
     supp |-> <<"D", "i", "v", "e", "r", "s", "o", "s">>, supp_alt |-> <<>>,
     cat |-> <<"R", "e", "c", "e", "i", "t", "a">>, desc |-> NaN],
    [date |-> <<"3", "1", "/", "0", "1", "/", "2", "0", "2", "4">>, valor |-> <<"1", "0", ".", "0", "0">>,
     valor_alt |-> <<>>, tipo |-> <<"E", "n", "t", "r", "a", "d", "a">>,
     cc |-> <<"A", "p", "p", " ", "S", "t", "o", "r", "e", " ", "R", "e", "v", "e", "n", "u", "e">>,
     supp |-> <<"A", "p", "p", " ", "S", "t", "o", "r", "e", " ", "(", "A", "p", "p", "l", "e", ")">>, supp_alt |-> <<>>,
     cat |-> <<"R", "e", "c", "e", "i", "t", "a">>, desc |-> NaN],
    [date |-> <<"3", "1", "/", "0", "1", "/", "2", "0", "2", "4">>, valor |-> <<"1", "0", ".", "0", "0">>,
     valor_alt |-> <<>>, tipo |-> <<"E", "n", "t", "r", "a", "d", "a">>,
     cc |-> <<"A", "p", "p", " ", "S", "t", "o", "r", "e", " ", "R", "e", "v", "e", "n", "u", "e">>,
     supp |-> <<"D", "i", "v", "e", "r", "s", "o", "s">>, supp_alt |-> <<>>,
     cat |-> <<"R", "e", "c", "e", "i", "t", "a">>, desc |-> NaN] }

NextVariants ==
  \/ Detect \/ Reconcile \/ Clean \/ EnforceWages
  \/ Start \/ LoopRow \/ Derive \/ Override \/ BuildRows

InitVariants ==
  /\ file_content \in {File("utf-8", ",", TestHeader, <<r>>, {}) : r \in VariantLines}
  /\ mappings = get_initial_mappings
  /\ overrides = <<>>
  /\ table = <<>>
  /\ error = <<>>
  /\ calls = 1
  /\ previous = <<>>
  /\ NoForecast
  /\ pc = "upload"
  /\ df = <<>>
  /\ columns = {}
  /\ start_date = NaT
  /\ end_date = NaT
  /\ InitLocals
  /\ NoValue
  /\ NoDrill

SpecVariants == InitVariants /\ [][NextVariants]_vars

(***************************************************************************)
(* calculate_pnl on long histories: one transaction in each month          *)
(***************************************************************************)
\* the number of months test_performance.py expects at most in the headers
MonthLimit == 120

\* a table of n months in a row, one revenue transaction in each
History(n) == [k \in 1..n |-> LedgerRow(<<"g">>, <<"q">>, Unit, k)]

InitHistory ==
  /\ df \in {History(n) : n \in {MonthLimit - 1, MonthLimit, MonthLimit + 1}}
  /\ mappings = LedgerMappings
  /\ columns = AllColumns
  /\ overrides = <<>>
  /\ start_date = NaT
  /\ end_date = NaT
  /\ InitState

SpecHistory == InitHistory /\ [][Next]_vars

(***************************************************************************)
(* get_dashboard_data: year-to-date KPIs, monthly chart data and the cost  *)
(* structure of the latest month, read off the rows of calculate_pnl       *)
(***************************************************************************)
\* get_val_by_line(line_num, m) summed over the headers
RECURSIVE SumRow(_, _, _)
SumRow(rs, r, hs) ==
  IF hs = <<>> THEN 0 ELSE rs[r][Head(hs)] + SumRow(rs, r, Tail(hs))

\* total / total_revenue if total_revenue > 0 else 0.0
Ratio(x, rev) == IF rev > 0 THEN Finite(x, rev) ELSE ZeroMargin

\* the latest month of positive revenue, else the last header
latest_month(hs, rs) ==
  LET pos == {k \in 1..Len(hs) : rs[1][hs[k]] > 0}
  IN  IF pos = {} THEN hs[Len(hs)]
      ELSE hs[CHOOSE k \in pos : \A n \in pos : n <= k]

EmptyDashboard == [kpis |-> <<>>, monthly_data |-> <<>>, cost_structure |-> <<>>]

DashboardOf(hs, rs) ==
  IF hs = <<>> THEN EmptyDashboard
  ELSE
    LET ytd_revenue == SumRow(rs, 1, hs)
        ytd_ebitda == SumRow(rs, 13, hs)
        ytd_gross_profit == SumRow(rs, 7, hs)
        latest == latest_month(hs, rs)
    IN  [kpis |->
           [total_revenue |-> ytd_revenue,
            net_result |-> SumRow(rs, 16, hs),
            ebitda |-> ytd_ebitda,
            ebitda_margin |-> Ratio(ytd_ebitda, ytd_revenue),
            gross_margin |-> Ratio(ytd_gross_profit, ytd_revenue),
            google_revenue |-> SumRow(rs, 21, hs),
            apple_revenue |-> SumRow(rs, 22, hs),
            nau |-> 0,
            cpa |-> 0],
         monthly_data |->
           [k \in 1..Len(hs) |->
              [month |-> hs[k],
               revenue |-> rs[1][hs[k]],
               ebitda |-> rs[13][hs[k]],
               costs |-> Abs(rs[4][hs[k]]),
               expenses |-> Abs(rs[8][hs[k]])]],
         cost_structure |->
           [payment_processing |-> Abs(rs[5][latest]),
            cogs |-> Abs(rs[6][latest]),
            marketing |-> Abs(rs[9][latest]),
            wages |-> Abs(rs[10][latest]),
            tech |-> Abs(rs[11][latest]),
            other |-> Abs(rs[12][latest])]]

get_dashboard_data(d, maps, ovs, cols) ==
  LET pnl == calculate_pnl(d, maps, ovs, cols, NaT, NaT)
  IN  DashboardOf(pnl.headers, pnl.rows)

\* `if df is None: return DashboardData(kpis={}, ...)`; the empty sequence
\* stands for no table as well as for a table of no rows
DashboardNone ==
  /\ pc = "start"
  /\ df = <<>>
  /\ response' = EmptyDashboard
  /\ pc' = "returned"
  /\ UNCHANGED <<inputs, Valor, Tipo, Valor_Num, file_content, table, error,
                 calls, previous, months_ahead, models, filtered_df,
                 month_strs, line_values, specific_mappings,
                 generic_mappings, i, matched_mapping, raised, j, lv_derived,
                 headers, rows, drill>>

\* calculate_pnl has returned
Dashboard ==
  /\ pc = "done"
  /\ response' = DashboardOf(headers, rows)
  /\ pc' = "returned"
  /\ UNCHANGED <<inputs, Valor, Tipo, Valor_Num, file_content, table, error,
                 calls, previous, months_ahead, models, filtered_df,
                 month_strs, line_values, specific_mappings,
                 generic_mappings, i, matched_mapping, raised, j, lv_derived,
                 headers, rows, drill>>

NextDashboard ==
  \/ Start \/ LoopRow \/ Derive \/ Override \/ BuildRows
  \/ DashboardNone \/ Dashboard

\* get_dashboard_data(df, mappings, overrides): no date filter
InitDashboard ==
  /\ mappings = LedgerMappings
  /\ df \in SeqsUpTo(LedgerRowPool, MaxTx)
  /\ columns = AllColumns
  /\ overrides \in OverridePool
  /\ start_date = NaT
  /\ end_date = NaT
  /\ InitState

SpecDashboard == InitDashboard /\ [][NextDashboard]_vars

(***************************************************************************)
(* get_pnl_line_transactions: the drill-down from a P&L line to the        *)
(* transactions behind it.  df and mappings are main's current_df and      *)
(* current_mappings.                                                       *)
(***************************************************************************)
\* the fields of the dataclass MappingItem
MappingItemFields ==
  {"grupo_financeiro", "centro_custo", "fornecedor_cliente", "linha_pl",
   "tipo", "ativo", "observacoes"}

HTTPException(status, text) ==
  [kind |-> "http", status_code |-> status, detail |-> text]

LowerText(s) == [k \in 1..Len(s) |-> Lower(s[k])]

\* Series.astype(str).str.contains(pat, case=False, na=False), for a
\* pattern without regular-expression metacharacters
StrContains(pat, cell) == Contains(LowerText(pat), LowerText(astype_str(cell)))

Diversos == <<"D", "i", "v", "e", "r", "s", "o", "s">>

\* the mask of the month filter and of the two text filters
DrillFilter(lm, mo, row) ==
  /\ mo # NaT => row.Mes_Competencia = mo
  /\ lm.centro_custo # <<>> => StrContains(lm.centro_custo, row.centro_custo)
  /\ (lm.fornecedor_cliente # <<>> /\ lm.fornecedor_cliente # Diversos)
       => StrContains(lm.fornecedor_cliente, row.fornecedor)

Transaction(row) ==
  [month |-> row.Mes_Competencia,
   centro_custo |-> astype_str(row.centro_custo),
   fornecedor |-> astype_str(row.fornecedor),
   descricao |-> astype_str(row.descricao),
   valor |-> row.Valor_Num,
   categoria |-> astype_str(row.categoria)]

RECURSIVE SumValor(_)
SumValor(ts) == IF ts = <<>> THEN 0 ELSE Head(ts).valor + SumValor(Tail(ts))

\* `if current_df is None or current_df.empty`
DrillNoData ==
  /\ pc = "start"
  /\ df = <<>>
  /\ error' = HTTPException(404, "No data loaded")
  /\ pc' = "raised"
  /\ UNCHANGED <<inputs, Valor, Tipo, Valor_Num, file_content, table, calls,
                 previous, months_ahead, models, response, filtered_df,
                 month_strs, line_values, specific_mappings,
                 generic_mappings, i, matched_mapping, raised, j, lv_derived,
                 headers, rows, drill>>

\* `for mapping in current_mappings: if int(mapping.linha_pl) == line_number`:
\* the loop stops at the first rule of that line, or at the first rule whose
\* linha_pl int() rejects
DrillFindMapping ==
  /\ pc = "start"
  /\ df # <<>>
  /\ LET stop == FirstIndex({k \in 1..Len(mappings) :
                    \/ ~IntOf(mappings[k].linha_pl).ok
                    \/ IntOf(mappings[k].linha_pl).v = drill_line_number})
     IN  IF stop = 0
         THEN /\ error' = HTTPException(404, "No mapping found for line")
              /\ pc' = "raised"
              /\ UNCHANGED line_mapping
         ELSE IF ~IntOf(mappings[stop].linha_pl).ok
         THEN /\ error' = [kind |-> "other", details |-> "ValueError: int()"]
              /\ pc' = "raised"
              /\ UNCHANGED line_mapping
         ELSE /\ line_mapping' = mappings[stop]
              /\ pc' = "filter"
              /\ UNCHANGED error
  /\ UNCHANGED <<inputs, Valor, Tipo, Valor_Num, file_content, table, calls,
                 previous, months_ahead, models, response, filtered_df,
                 month_strs, line_values, specific_mappings,
                 generic_mappings, i, matched_mapping, raised, j, lv_derived,
                 headers, rows, drill_line_number, drill_month, transactions,
                 total>>

\* the filters, then `for _, row in filtered_df.iterrows()`
DrillCollect ==
  /\ pc = "filter"
  /\ filtered_df' = SelectSeq(df, LAMBDA row : DrillFilter(line_mapping, drill_month, row))
  /\ transactions' = [k \in 1..Len(filtered_df') |-> Transaction(filtered_df'[k])]
  /\ total' = SumValor(transactions')
  /\ pc' = "return"
  /\ UNCHANGED <<inputs, Valor, Tipo, Valor_Num, file_content, table, error,
                 calls, previous, months_ahead, models, response, month_strs,
                 line_values, specific_mappings, generic_mappings, i,
                 matched_mapping, raised, j, lv_derived, headers, rows,
                 drill_line_number, drill_month, line_mapping>>

\* the returned dict; reading an attribute the rule does not have raises
\* AttributeError
DrillReturn ==
  /\ pc = "return"
  /\ IF "descricao" \in MappingItemFields
     THEN /\ response' = [line_number |-> drill_line_number,
                          centro_custo_filter |-> line_mapping.centro_custo,
                          fornecedor_filter |-> line_mapping.fornecedor_cliente,
                          month |-> drill_month,
                          total |-> total,
                          count |-> Len(transactions),
                          transactions |-> transactions]
          /\ pc' = "returned"
          /\ UNCHANGED error
     ELSE /\ error' = [kind |-> "other",
                       details |-> "AttributeError: descricao"]
          /\ pc' = "raised"
          /\ UNCHANGED response
  /\ UNCHANGED <<inputs, Valor, Tipo, Valor_Num, file_content, table, calls,
                 previous, months_ahead, models, filtered_df, month_strs,
                 line_values, specific_mappings, generic_mappings, i,
                 matched_mapping, raised, j, lv_derived, headers, rows, drill>>

NextDrill == DrillNoData \/ DrillFindMapping \/ DrillCollect \/ DrillReturn

\* the lines and the months asked for
DrillLines == {43, 45, 48}

DrillMonths == {NaT, 1}

InitDrill ==
  /\ mappings \in {s \in SeqsUpTo(RulePool, MaxRules) : Injective(s)}
  /\ df \in MatchFrames \cup {<<>>}
  /\ columns = AllColumns
  /\ overrides = <<>>
  /\ start_date = NaT
  /\ end_date = NaT
  /\ pc = "start"
  /\ InitLocals
  /\ NoValue
  /\ NoUpload
  /\ NoForecast
  /\ drill_line_number \in DrillLines
  /\ drill_month \in DrillMonths
  /\ line_mapping = <<>>
  /\ transactions = <<>>
  /\ total = 0

SpecDrill == InitDrill /\ [][NextDrill]_vars

(***************************************************************************)
(* calculate_pnl on costs and expenses of either sign                      *)
(***************************************************************************)
CostRowPool ==
  { LedgerRow(<<"g">>, <<"q">>, 20000, 1),
    LedgerRow(<<"w">>, <<"a">>, 10000, 1),
    LedgerRow(<<"w">>, <<"a">>, 0 - 20000, 1),
    LedgerRow(<<"w">>, <<"a", "b">>, 0 - 10000, 1),
    LedgerRow(<<"w">>, <<"q">>, 10000, 2),
    LedgerRow(<<"k">>, <<"q">>, 10000, 1),
    LedgerRow(<<"s">>, <<"q">>, 0 - 10000, 2),
    LedgerRow(<<"t">>, <<"a">>, 20000, 1),
    LedgerRow(<<"t">>, <<"q">>, 0 - 10000, 1),
    LedgerRow(<<"o">>, <<"q">>, 10000, 1) }

InitCosts ==
  /\ mappings = LedgerMappings
  /\ df \in SeqsUpTo(CostRowPool, MaxTx + 1)
  /\ columns = AllColumns
  /\ overrides = <<>>
  /\ start_date = NaT
  /\ end_date = NaT
  /\ InitState

SpecCosts == InitCosts /\ [][Next]_vars

(***************************************************************************)
(* calculate_pnl on rule sets with inactive rules                          *)
(***************************************************************************)
\* the rule with its flag ativo set to 'Não'
Inactive(rule) == [rule EXCEPT !.ativo = "Não"]

ActiveRulePool ==
  { Rule(<<"w">>, <<"a">>, <<"4", "3">>),
    Rule(<<"w">>, <<"a", "b">>, <<"4", "8">>),
    Rule(<<"w">>, <<>>, <<"4", "5">>),
    Rule(<<"c">>, <<"d", "i", "v", "e", "r", "s", "o", "s">>, <<"5", "6">>) }

InitInactive ==
  /\ mappings \in {s \in SeqsUpTo(ActiveRulePool \cup {Inactive(r) : r \in ActiveRulePool},
                                  MaxRules) : Injective(s)}
  /\ df \in MatchFrames
  /\ columns = AllColumns
  /\ overrides = <<>>
  /\ start_date = NaT
  /\ end_date = NaT
  /\ InitState

SpecInactive == InitInactive /\ [][Next]_vars

(***************************************************************************)
(* Vocabulary of the properties                                            *)
(***************************************************************************)
Months == Range(month_strs)

\* the accumulation loop has run to its end and no month is derived yet
AccumulationDone == pc = "loop" /\ i > Len(filtered_df) /\ j = 1

\* the row of the last iteration was matched (its month is in the headers)
RowMatched ==
  /\ pc \in {"loop", "rows", "done"}
  /\ i > 1
  /\ filtered_df[i - 1].Mes_Competencia \in Months

LastRow == filtered_df[i - 1]

RowCc(row) == normalize_text_helper(fillna(row.centro_custo))

RowCat(row) == normalize_text_helper(row.categoria)

\* positions of the specific rules keyed by `key` whose pattern occurs in text
SpecificHits(key, text) ==
  {k \in 1..Len(mappings) :
     /\ IsSpecific(mappings[k])
     /\ CcNorm(mappings[k]) = key
     /\ Contains(SuppNorm(mappings[k]), text)}

\* positions of the generic rules keyed by `key`
GenericHits(key) ==
  {k \in 1..Len(mappings) : ~IsSpecific(mappings[k]) /\ CcNorm(mappings[k]) = key}

RulesAt(K) == {mappings[k] : k \in K}

PatternLen(m) == Len(SuppNorm(m))

RECURSIVE SumVal(_)
SumVal(K) ==
  IF K = {} THEN 0
  ELSE LET k == CHOOSE x \in K : TRUE
       IN  filtered_df[k].Valor_Num + SumVal(K \ {k})

\* the first-hit rule of row k, as the matcher resolves it
Hit(k) == MatchRow(specific_mappings, generic_mappings, columns, filtered_df[k])

WellFormed(m) == IntOf(m.linha_pl).ok

\* rows of month m whose first-hit rule is well formed and targets line L
RowsOn(L, m) ==
  {k \in 1..Len(filtered_df) :
     /\ filtered_df[k].Mes_Competencia = m
     /\ Hit(k) # <<>>
     /\ WellFormed(Hit(k)[1])
     /\ IntOf(Hit(k)[1].linha_pl).v = L}

(***************************************************************************)
(* C1: when several specific rules of the row's cost center have a pattern *)
(* that occurs in the match text, the rule selected is one of them and no  *)
(* matching rule of that cost center has a longer pattern, whatever the    *)
(* order of the rules in the list.                                         *)
(***************************************************************************)
C1_LongestMatchWins ==
  RowMatched =>
    LET hits == SpecificHits(RowCc(LastRow), MatchText(columns, LastRow))
    IN  hits # {} =>
          /\ matched_mapping # <<>>
          /\ matched_mapping[1] \in RulesAt(hits)
          /\ \A k \in hits : PatternLen(mappings[k]) <= PatternLen(matched_mapping[1])

\* a shorter matching pattern stands before the longer one in the rule list
\* and the longer one is selected
C1_Witness ==
  /\ RowMatched
  /\ matched_mapping # <<>>
  /\ \E a, b \in SpecificHits(RowCc(LastRow), MatchText(columns, LastRow)) :
       /\ a < b
       /\ PatternLen(mappings[a]) < PatternLen(mappings[b])
       /\ matched_mapping[1] = mappings[b]

(***************************************************************************)
(* C2: every iteration of the loop resolves its row first hit wins:        *)
(* matching specific rule of the cost center, else generic rule of the     *)
(* cost center, else matching specific rule keyed by the category, else    *)
(* generic rule keyed by the category, else none; a row with no hit        *)
(* leaves every line unchanged and nothing is raised.                      *)
(***************************************************************************)
Resolved(row, hit) ==
  LET cc == RowCc(row)
      cat == RowCat(row)
      text == MatchText(columns, row)
      hasCat == "Categoria 1" \in columns
  IN  IF SpecificHits(cc, text) # {}
        THEN hit # <<>> /\ hit[1] \in RulesAt(SpecificHits(cc, text))
      ELSE IF GenericHits(cc) # {}
        THEN hit # <<>> /\ hit[1] \in RulesAt(GenericHits(cc))
      ELSE IF hasCat /\ SpecificHits(cat, text) # {}
        THEN hit # <<>> /\ hit[1] \in RulesAt(SpecificHits(cat, text))
      ELSE IF hasCat /\ GenericHits(cat) # {}
        THEN hit # <<>> /\ hit[1] \in RulesAt(GenericHits(cat))
      ELSE hit = <<>>

C2_ResolutionOrder ==
  [][(pc = "loop" /\ i' = i + 1 /\ filtered_df[i].Mes_Competencia \in Months) =>
       /\ Resolved(filtered_df[i], matched_mapping')
       /\ matched_mapping' = <<>> => line_values' = line_values
       /\ ~raised' /\ pc' = "loop"]_vars

\* the generic rule of the cost center is chosen although a specific rule
\* keyed by the category matches the row
C2_Witness ==
  /\ RowMatched
  /\ "Categoria 1" \in columns
  /\ SpecificHits(RowCc(LastRow), MatchText(columns, LastRow)) = {}
  /\ SpecificHits(RowCat(LastRow), MatchText(columns, LastRow)) # {}
  /\ matched_mapping # <<>>
  /\ matched_mapping[1] \in RulesAt(GenericHits(RowCc(LastRow)))

(***************************************************************************)
(* C3: after the accumulation pass, for every integer target line L        *)
(* (open-ended) and every month M of the headers, accumulator[L][M] is the *)
(* sum of the amounts of the rows of M whose first-hit rule targets L.     *)
(***************************************************************************)
C3_ExactAccumulationAnyLine ==
  AccumulationDone =>
    \A k \in 1..Len(filtered_df) :
      (/\ filtered_df[k].Mes_Competencia \in Months
       /\ Hit(k) # <<>>
       /\ WellFormed(Hit(k)[1])) =>
        LET L == IntOf(Hit(k)[1].linha_pl).v
            m == filtered_df[k].Mes_Competencia
        IN  /\ L \in DOMAIN line_values
            /\ line_values[L][m] = SumVal(RowsOn(L, m))

(***************************************************************************)
(* C10: with rules whose linha_pl is not an integer in the rule set the    *)
(* run never raises, and every row whose first-hit rule is well formed is  *)
(* resolved by the same rule and accumulated to the same line as with the  *)
(* malformed rules removed from the rule set; a row whose first-hit rule   *)
(* is malformed adds nothing.                                              *)
(***************************************************************************)
CleanMappings == SelectSeq(mappings, WellFormed)

\* the first hit of every row under the rule set without the malformed rules
CleanHits ==
  LET cs == SpecificByCc(CleanMappings)
      cg == GenericByCc(CleanMappings)
  IN  [k \in 1..Len(filtered_df) |-> MatchRow(cs, cg, columns, filtered_df[k])]

Hits == [k \in 1..Len(filtered_df) |-> Hit(k)]

C10_MalformedRuleNeverAborts ==
  /\ pc # "raised"
  /\ ~raised
  /\ AccumulationDone =>
       LET h == Hits
           ch == CleanHits
           kept == {k \in 1..Len(filtered_df) :
                      /\ filtered_df[k].Mes_Competencia \in Months
                      /\ h[k] # <<>> /\ WellFormed(h[k][1])}
           target == [k \in {n \in kept : ch[n] # <<>>} |->
                        IntOf(ch[k][1].linha_pl).v]
       IN  /\ \A k \in kept : ch[k] = h[k]
           /\ \A L \in DOMAIN line_values : \A m \in Months :
                line_values[L][m] =
                  SumVal({k \in DOMAIN target :
                            target[k] = L /\ filtered_df[k].Mes_Competencia = m})

\* one row hits a malformed rule, another a well-formed one and is added
C10_Witness ==
  /\ AccumulationDone
  /\ \E k \in 1..Len(filtered_df) :
       /\ filtered_df[k].Mes_Competencia \in Months
       /\ Hit(k) # <<>> /\ ~WellFormed(Hit(k)[1])
  /\ \E k \in 1..Len(filtered_df) :
       /\ filtered_df[k].Mes_Competencia \in Months
       /\ Hit(k) # <<>> /\ WellFormed(Hit(k)[1])
       /\ IntOf(Hit(k)[1].linha_pl).v \in DOMAIN line_values
       /\ line_values[IntOf(Hit(k)[1].linha_pl).v][filtered_df[k].Mes_Competencia] # 0

(***************************************************************************)
(* Vocabulary of the derivation properties                                 *)
(***************************************************************************)
Published == pc = "done" /\ df # <<>>

RevenueLines == {25, 33, 38, 49}

\* rows of month m whose first-hit rule targets one of the lines Ls
RowsOnLines(Ls, m) == UNION {RowsOn(L, m) : L \in Ls}

\* the overrides hold an entry for line L and month m
Overridden(L, m) ==
  \E k \in 1..Len(overrides) :
    /\ IntOf(overrides[k].line_str).ok
    /\ IntOf(overrides[k].line_str).v = L
    /\ m \in DOMAIN overrides[k].months_data

\* the value the overrides give line L in month m: <<>> or <<value>>
OverrideValue(L, m) ==
  IF Overridden(L, m)
  THEN LET k == CHOOSE n \in 1..Len(overrides) :
                  /\ IntOf(overrides[n].line_str).ok
                  /\ IntOf(overrides[n].line_str).v = L
                  /\ m \in DOMAIN overrides[n].months_data
       IN  <<overrides[k].months_data[m]>>
  ELSE <<>>

(***************************************************************************)
(* C4: total_revenue of a month is the signed sum of lines 25 and 33 and   *)
(* of the investment income, that is the signed sum of the amounts of the  *)
(* rows accumulated on those lines: no absolute value is taken, a negative *)
(* amount lowers it by its magnitude and it can be negative.               *)
(***************************************************************************)
C4_RevenueSignPreserved ==
  pc \in {"rows", "done"} =>
    \A m \in Months :
      /\ lv_derived[100][m] =
           lv_derived[25][m] + lv_derived[33][m]
             + (lv_derived[38][m] + lv_derived[49][m])
      /\ lv_derived[100][m] = SumVal(RowsOnLines(RevenueLines, m))

\* a refund makes the total revenue of a month negative
C4_Witness ==
  /\ pc = "rows"
  /\ \E m \in Months : lv_derived[100][m] < 0 /\ lv_derived[25][m] < 0

(***************************************************************************)
(* C5 as stated: in the published table, for any overrides, row 7 equals   *)
(* row 1 plus row 5 plus row 6 in every month.                             *)
(***************************************************************************)
C5_GrossProfitIdentityAnyOverrides ==
  Published =>
    \A m \in Months : rows[7][m] = rows[1][m] + rows[5][m] + rows[6][m]

(***************************************************************************)
(* C5 amended: in the published table row 7 equals row 1 plus row 5 plus   *)
(* row 6 in every month for which the overrides hold no entry for line     *)
(* 100.                                                                    *)
(***************************************************************************)
C5_GrossProfitIdentity ==
  Published =>
    \A m \in Months :
      ~Overridden(100, m) => rows[7][m] = rows[1][m] + rows[5][m] + rows[6][m]

\* a month with revenue and direct costs, published under overrides of
\* another final line
C5_Witness ==
  /\ Published
  /\ overrides # <<>>
  /\ \E m \in Months :
       /\ ~Overridden(100, m) /\ Overridden(106, m)
       /\ rows[1][m] # 0 /\ rows[6][m] # 0
       /\ rows[7][m] = rows[1][m] + rows[5][m] + rows[6][m]

(***************************************************************************)
(* C6 as stated: in the published table, for any overrides, row 13 equals  *)
(* row 7 plus row 8 in every month.                                        *)
(***************************************************************************)
C6_EbitdaIdentityAnyOverrides ==
  Published =>
    \A m \in Months : rows[13][m] = rows[7][m] + rows[8][m]

(***************************************************************************)
(* C6 amended: in the published table row 13 equals row 7 plus row 8 in    *)
(* every month for which the overrides hold no entry for line 106, and row *)
(* 8 is minus total_opex = |marketing| + |wages| + |tech support lines| +  *)
(* |other expenses| in every month.                                        *)
(***************************************************************************)
C6_EbitdaIdentity ==
  Published =>
    \A m \in Months :
      /\ ~Overridden(106, m) => rows[13][m] = rows[7][m] + rows[8][m]
      /\ rows[8][m] =
           0 - (Abs(line_values[56][m]) + Abs(line_values[62][m])
                + Abs(line_values[65][m]) + Abs(line_values[68][m])
                + Abs(line_values[90][m]))

\* a month with other expenses and a tech-support line, line 106 untouched
C6_Witness ==
  /\ Published
  /\ \E m \in Months :
       /\ ~Overridden(106, m)
       /\ line_values[90][m] # 0
       /\ line_values[65][m] # 0 \/ line_values[68][m] # 0
       /\ rows[13][m] = rows[7][m] + rows[8][m]

(***************************************************************************)
(* C7 as stated: in the published table, for any overrides, row 16 equals  *)
(* row 13 in every month.                                                  *)
(***************************************************************************)
C7_NetResultIsEbitdaAnyOverrides ==
  Published => \A m \in Months : rows[16][m] = rows[13][m]

(***************************************************************************)
(* C7 amended: in the published table row 16 equals row 13 in every month  *)
(* in which the overrides treat lines 106 and 111 alike (no entry for      *)
(* either, or the same value for both).                                    *)
(***************************************************************************)
C7_NetResultIsEbitda ==
  Published =>
    \A m \in Months :
      OverrideValue(106, m) = OverrideValue(111, m) => rows[16][m] = rows[13][m]

\* a month with a non-zero EBITDA and other expenses, lines 106 and 111
\* untouched
C7_Witness ==
  /\ Published
  /\ \E m \in Months :
       /\ ~Overridden(106, m) /\ ~Overridden(111, m)
       /\ rows[13][m] # 0 /\ rows[12][m] # 0
       /\ rows[16][m] = rows[13][m]

FinalRows == {1, 13, 16}

C9_OverrideRestriction ==
  /\ pc # "raised"
  /\ Published =>
       LET base == RowsOf(lv_derived, Months)
       IN  \A m \in Months :
             /\ \A r \in RowNumbers \ MarginRows :
                  rows[r][m] =
                    IF r \in FinalRows /\ Overridden(RowLine(r), m)
                    THEN OverrideValue(RowLine(r), m)[1]
                    ELSE base[r][m]
             /\ rows[14][m] = Margin(rows[13][m], rows[1][m])
             /\ rows[15][m] = Margin(rows[7][m], rows[1][m])
             /\ (~Overridden(100, m) /\ ~Overridden(106, m)) =>
                  (rows[14][m] = base[14][m] /\ rows[15][m] = base[15][m])

\* an entry for line 106 and an entry for a transaction-sourced line: the
\* first is published, the second is not
C9_Witness ==
  /\ Published
  /\ \E m \in Months, n \in Months :
       /\ Overridden(106, m)
       /\ rows[13][m] = OverrideValue(106, m)[1]
       /\ rows[13][m] # lv_derived[106][m]
       /\ Overridden(25, n)
       /\ OverrideValue(25, n)[1] # line_values[25][n]

(***************************************************************************)
(* C11: when the table has a direction column, the signed amount of a row  *)
(* is -|v| if the normalized direction cell contains one of the outflow    *)
(* synonyms saida, debito, despesa, pagamento, and +|v| otherwise (a       *)
(* missing or empty direction cell included), v being the value the parser *)
(* gives for the amount cell; the sign written in the amount cell has no   *)
(* effect.                                                                 *)
(***************************************************************************)
OutflowSynonyms ==
  { <<"s", "a", "i", "d", "a">>, <<"d", "e", "b", "i", "t", "o">>,
    <<"d", "e", "s", "p", "e", "s", "a">>,
    <<"p", "a", "g", "a", "m", "e", "n", "t", "o">> }

Outflow(cell) ==
  \E syn \in OutflowSynonyms : Contains(syn, normalize_text_helper(cell))

\* the value float() gives for the cleaned text of a cell, when it gives one
Parsed(cell) == FloatOf(AmountText(cell).s)

Unparsable(cell) == cell # NaN /\ Strip(cell) # <<>> /\ ~Parsed(cell).ok

Magnitude(cell) ==
  IF cell = NaN \/ Strip(cell) = <<>> \/ ~Parsed(cell).ok THEN 0
  ELSE Abs(Parsed(cell).v)

C11_DirectionAuthoritative ==
  (pc = "signed" /\ Tipo # Absent) =>
     /\ Outflow(Tipo) => Valor_Num = 0 - Magnitude(Valor)
     /\ ~Outflow(Tipo) => Valor_Num = Magnitude(Valor)

\* an amount written as a negative in a row whose direction is an inflow
C11_Witness ==
  /\ pc = "signed"
  /\ Tipo = <<"E", "n", "t", "r", "a", "d", "a">>
  /\ Valor = <<"(", "1", ")">>
  /\ Valor_Num = Unit

(***************************************************************************)
(* C12: an amount cell written in accounting-negative notation (its text,  *)
(* currency symbol aside, is wrapped in parentheses or ends with a minus   *)
(* sign) parses to minus the magnitude it denotes, so to a value <= 0; in  *)
(* a table without a direction column that value is the signed amount.     *)
(***************************************************************************)
AccountingNegative(cell) ==
  /\ cell # NaN
  /\ LET s == Strip(Replace(cell, <<"R", "$">>, <<>>))
     IN  \/ StartsWith(s, "(") /\ EndsWith(s, ")")
         \/ EndsWith(s, "-")

C12_AccountingNegative ==
  /\ (pc = "tipo" /\ AccountingNegative(Valor)) =>
       (Valor_Num <= 0 /\ Valor_Num = 0 - Magnitude(Valor))
  /\ (pc = "signed" /\ Tipo = Absent /\ AccountingNegative(Valor)) =>
       (Valor_Num <= 0 /\ Valor_Num = 0 - Magnitude(Valor))

(***************************************************************************)
(* C13: the value parser returns a number for every amount cell, missing,  *)
(* empty or any text, and never raises; for a missing, empty or unparsable *)
(* cell it returns exactly 0.                                              *)
(***************************************************************************)
C13_ValueParserTotal ==
  /\ pc # "raised"
  /\ ~raised
  /\ pc = "tipo" =>
       /\ Valor_Num \in Int
       /\ (Valor = NaN \/ Strip(Valor) = <<>> \/ Unparsable(Valor)) => Valor_Num = 0
       /\ (Valor # NaN /\ Parsed(Valor).ok) => Abs(Valor_Num) = Abs(Parsed(Valor).v)

\* a cell float() rejects
C13_Witness ==
  /\ pc = "tipo"
  /\ Valor = <<"1", ",", "5", ",">>
  /\ Unparsable(Valor)
  /\ Valor_Num = 0

(***************************************************************************)
(* C14: in the table process_upload returns, a row whose combined          *)
(* normalized text (cost center, category, description, counterparty)      *)
(* contains a payroll keyword, or whose normalized cost center is already  *)
(* 'wages expenses', has the cost center 'Wages Expenses'; every other row *)
(* keeps its own trimmed cost center, and no other field changes.  This    *)
(* holds from the first step of calculate_pnl on.  As claimed, the matcher *)
(* then resolves such a row only through rules of the payroll cost center. *)
(* As amended, it does so at the cost-center levels, and when no rule of   *)
(* the payroll cost center matches the row it resolves the row through the *)
(* rules keyed by the row's category, as for any other row.                *)
(***************************************************************************)
PayrollWords ==
  { <<"f", "o", "l", "h", "a", " ", "d", "e", " ", "p", "a", "g", "a", "m", "e", "n", "t", "o">>,
    <<"f", "o", "l", "h", "a", " ", "p", "a", "g", "a", "m", "e", "n", "t", "o">>,
    <<"f", "o", "l", "h", "a">>,
    <<"p", "r", "o", " ", "l", "a", "b", "o", "r", "e">>,
    <<"p", "r", "o", "-", "l", "a", "b", "o", "r", "e">>,
    <<"s", "a", "l", "a", "r", "i", "o">>,
    <<"h", "o", "l", "e", "r", "i", "t", "e">>,
    <<"p", "r", "e", "s", "t", "a", "d", "o", "r", " ", "d", "e", " ", "s", "e", "r", "v", "i", "c", "o", " ", "p", "j">>,
    <<"p", "a", "y", "r", "o", "l", "l">> }

WagesKey == <<"w", "a", "g", "e", "s", " ", "e", "x", "p", "e", "n", "s", "e", "s">>

\* the normalized fields of a cleaned row, joined by blanks
CombinedText(row) ==
  normalize_text_helper(row.centro_custo) \o <<" ">>
    \o (IF "Categoria 1" \in columns THEN normalize_text_helper(row.categoria) ELSE <<>>)
    \o <<" ">> \o normalize_text_helper(row.descricao)
    \o <<" ">> \o normalize_text_helper(row.fornecedor)

IsPayroll(row) ==
  \/ normalize_text_helper(row.centro_custo) = WagesKey
  \/ \E w \in PayrollWords : Contains(w, CombinedText(row))

InEngine == pc \in {"start", "loop", "rows", "done"}

OverrideDone ==
  /\ Len(df) = Len(table.rows)
  /\ \A k \in 1..Len(df) :
       df[k] = [table.rows[k] EXCEPT !.centro_custo =
                  IF IsPayroll(table.rows[k]) THEN <<"W", "a", "g", "e", "s", " ", "E", "x", "p", "e", "n", "s", "e", "s">>
                  ELSE Strip(table.rows[k].centro_custo)]

PayrollRowMatched == RowMatched /\ IsPayroll(table.rows[i - 1])

C14_PayrollRulesOnly ==
  InEngine =>
    /\ OverrideDone
    /\ PayrollRowMatched =>
         (matched_mapping = <<>> \/ CcNorm(matched_mapping[1]) = WagesKey)

C14_PayrollOverride ==
  InEngine =>
    /\ OverrideDone
    /\ PayrollRowMatched =>
         /\ RowCc(LastRow) = WagesKey
         /\ Resolved(LastRow, matched_mapping)
         /\ (matched_mapping # <<>> /\ CcNorm(matched_mapping[1]) # WagesKey) =>
              /\ SpecificHits(WagesKey, MatchText(columns, LastRow)) = {}
              /\ GenericHits(WagesKey) = {}
              /\ CcNorm(matched_mapping[1]) = RowCat(LastRow)

\* a row of another cost center whose category is a payroll keyword is
\* moved to the payroll cost center and resolved by its generic rule
C14_Witness ==
  /\ PayrollRowMatched
  /\ normalize_text_helper(table.rows[i - 1].centro_custo) = <<"w">>
  /\ LastRow.centro_custo = <<"W", "a", "g", "e", "s", " ", "E", "x", "p", "e", "n", "s", "e", "s">>
  /\ matched_mapping # <<>>
  /\ matched_mapping[1].linha_pl = <<"6", "2">>


\* process_upload has returned or raised
UploadEnded == pc = "failed" \/ InEngine

\* no encoding x delimiter combination, strict or lenient, yields a table
\* with the date column
NoCombination(file) ==
  \A e \in Range(encodings) : \A sep \in Range(separators) :
     \A lenient \in BOOLEAN :
        LET t == read_csv(file, e, sep, lenient)
        IN  t.raised \/ DateCol \notin Range(t.header)

\* the required columns the accepted table offers neither under their own
\* name nor under an alias
StillMissing(file) ==
  LET t == DetectFormat(file)
      names == {Strip(t.header[k]) : k \in 1..Len(t.header)}
  IN  { k \in 1..Len(column_aliases) :
          /\ <<column_aliases[k].target>> \in Range(required_cols)
          /\ \A a \in Range(column_aliases[k].aliases) : <<a>> \notin names }

\* C15: process_upload fails with a format-detection error exactly when no
\* encoding x delimiter combination exposes the date column, with a schema
\* error listing the columns exactly when a table was accepted and a required
\* column is still missing after alias reconciliation, and on no other input.
C15_StructuralErrors ==
  UploadEnded =>
    /\ (error # <<>> /\ error.kind = "format") <=> NoCombination(file_content)
    /\ (error # <<>> /\ error.kind = "schema")
         <=> (~NoCombination(file_content) /\ StillMissing(file_content) # {})
    /\ error # <<>> => error.kind \in {"format", "schema"}

\* the file whose first alias of every column absent under its own name
\* bears that name
WithCanonicalHeader(file) == [file EXCEPT !.header = RenameAll(file.header, 1)]

\* C16: a file with a canonical column under an alias is ingested exactly as
\* the same file with the canonical header, for each of the five columns, the
\* date column included.
C16_AliasReconciliation ==
  UploadEnded =>
    LET p == process_upload(WithCanonicalHeader(file_content))
    IN  /\ (error = <<>>) <=> (p.error = <<>>)
        /\ error = <<>> => (df = p.df /\ columns = p.columns)


\* the date cell of a line of the file
DateCell(file, ln) ==
  ln.cells[CHOOSE k \in 1..Len(file.header) : file.header[k] = DateCol]

\* a date cell that is missing or matches none of the accepted formats
UnparsableDate(cell) ==
  \/ cell = NaN
  \/ \A k \in 1..Len(formats) : ~StrpTime(Strip(cell), formats[k]).ok

\* the file with a parsable date in every date cell
WithParsableDates(file) ==
  [file EXCEPT !.lines =
     [n \in 1..Len(file.lines) |->
        [file.lines[n] EXCEPT !.cells =
           [k \in 1..Len(file.header) |->
              IF file.header[k] = DateCol
              THEN <<"3", "1", "/", "0", "1", "/", "2", "0", "2", "4">>
              ELSE file.lines[n].cells[k]]]]]

\* the lines of the file that reach the table
LinesRead(file) == SelectSeq(file.lines, LAMBDA ln : ~ln.bad)

Dated(d) == SelectSeq(d, LAMBDA row : row.Mes_Competencia # NaT)

\* C17: a row whose date cell is missing or matches none of the accepted
\* formats gets a null month key; neither process_upload nor calculate_pnl
\* fails because of it, it adds no month to the headers and contributes to
\* no cell, and every cell is what the other rows alone aggregate to.
C17_UnparsableDatesAbsorbed ==
  /\ pc # "raised"
  /\ (UploadEnded /\ error # <<>>) =>
        error = process_upload(WithParsableDates(file_content)).error
  /\ InEngine =>
       /\ Len(df) = Len(LinesRead(file_content))
       /\ \A k \in 1..Len(df) :
            df[k].Mes_Competencia = NaT
              <=> UnparsableDate(DateCell(file_content, LinesRead(file_content)[k]))
  /\ pc = "done" =>
       LET p == calculate_pnl(Dated(df), mappings, overrides, columns,
                              start_date, end_date)
       IN  /\ NaT \notin Range(headers)
           /\ headers = p.headers
           /\ \A r \in DOMAIN rows : \A m \in Range(headers) :
                rows[r][m] = p.rows[r][m]

\* a table with a row of unparsable date and a dated row that reaches a line
C17_Witness ==
  /\ pc = "done"
  /\ error = <<>>
  /\ \E k \in 1..Len(df) :
       /\ df[k].Mes_Competencia = NaT
       /\ DateCell(file_content, LinesRead(file_content)[k]) # NaN
  /\ \E m \in Range(headers) : rows[1][m] # 0


\* the call under way was preceded by a completed call on the same bytes,
\* rule set and overrides
SameAsPrevious ==
  /\ previous # <<>>
  /\ ~previous.failed
  /\ previous.file_content = file_content
  /\ previous.mappings = mappings
  /\ previous.overrides = overrides

\* C20: process_upload followed by calculate_pnl run twice on identical
\* bytes, rule set and overrides yields identical headers and rows; the
\* accumulator and the mapping index are rebuilt on every call, so the result
\* is a function of the arguments of the call alone, whatever calls were made
\* before; and calculate_pnl leaves its table and its rule list unchanged.
C20_Idempotent ==
  /\ [](/\ (pc = "done" /\ SameAsPrevious) =>
              (headers = previous.headers /\ rows = previous.rows)
        /\ pc = "done" =>
             LET p == process_upload(file_content)
                 r == calculate_pnl(p.df, mappings, overrides, p.columns,
                                    start_date, end_date)
             IN  p.error = <<>> /\ headers = r.headers /\ rows = r.rows
        /\ pc \in {"loop", "rows", "done"} =>
             /\ specific_mappings = SpecificByCc(mappings)
             /\ generic_mappings = GenericByCc(mappings)
             /\ DOMAIN line_values = 1..MaxLine
             /\ \A l \in 1..MaxLine : DOMAIN line_values[l] = Range(MonthsOf(df))
        /\ (pc = "loop" /\ i = 1 /\ j = 1) =>
             \A l \in 1..MaxLine : \A m \in DOMAIN line_values[l] :
                line_values[l][m] = 0)
  /\ [][(pc \in {"start", "loop", "rows"}) =>
          (df' = df /\ mappings' = mappings /\ overrides' = overrides)]_vars

\* a second call on the same bytes and rules has published a table that is
\* not all zeros
C20_Witness ==
  /\ pc = "done"
  /\ calls = 2
  /\ SameAsPrevious
  /\ \E m \in Range(headers) : rows[1][m] # 0


\* the number of historical months of the table handed to calculate_forecast
HistoricalMonths ==
  Cardinality({df[k].Mes_Competencia : k \in 1..Len(df)} \ {NaT})

ForecastEnded == pc \in {"returned", "raised"}

\* C18: with fewer than 3 historical months (0, 1 or 2) calculate_forecast
\* returns an empty forecast list together with a warning entry, attempts no
\* model fit and raises no error.
C18_InsufficientData ==
  HistoricalMonths < 3 =>
    /\ pc \notin {"fitted", "raised"}
    /\ models = <<>>
    /\ ForecastEnded =>
         /\ response.forecast = <<>>
         /\ "warning" \in DOMAIN response

\* the calendar month that follows, and the k-th one that follows
NextCalendarMonth(m) ==
  IF m.month = 12 THEN [year |-> m.year + 1, month |-> 1]
  ELSE [year |-> m.year, month |-> m.month + 1]

RECURSIVE CalendarAfter(_, _)
CalendarAfter(m, k) ==
  IF k = 0 THEN m ELSE CalendarAfter(NextCalendarMonth(m), k - 1)

\* the last historical month, as year and month
LastHistorical ==
  LET last == CHOOSE m \in Range(headers) : \A x \in Range(headers) : x <= m
  IN  [year |-> (last - 1) \div 12, month |-> last - 12 * ((last - 1) \div 12)]

\* the least-squares line through the cells of a row, read k months after
\* the last one and rounded to the hundredth
Projected(r, k) ==
  round2(predict(fit(get_line_series(headers, rows, r)), Len(headers) - 1 + k))

\* C19: with at least 3 historical months and months_ahead = N,
\* calculate_forecast returns exactly N entries, the i-th labelled with the
\* i-th calendar month after the last historical month and flagged
\* is_forecast, every predicted revenue is >= 0 and the predicted EBITDA is
\* left as projected, negative or not.
C19_ForecastShape ==
  (HistoricalMonths >= 3 /\ ForecastEnded) =>
    /\ pc = "returned"
    /\ Len(response.forecast) = months_ahead
    /\ \A k \in 1..Len(response.forecast) :
         LET entry == response.forecast[k]
         IN  /\ entry.month = CalendarAfter(LastHistorical, k)
             /\ entry.is_forecast = TRUE
             /\ entry.revenue >= 0
             /\ Projected(1, k) >= 0 => entry.revenue = Projected(1, k)
             /\ entry.ebitda = Projected(13, k)


\* the canonical cost center a naming variant stands for
CanonicalOf(cc) ==
  CASE cc = <<>> -> <<>>
    [] cc = <<"T", "e", "c", "h", " ", "S", "u", "p", "p", "o", "r", "t">>
         -> <<"T", "e", "c", "h", " ", "S", "u", "p", "p", "o", "r", "t", " ", "&", " ", "S", "e", "r", "v", "i", "c", "e", "s">>
    [] cc = <<"T", "e", "c", "h", "n", "i", "c", "a", "l", " ", "S", "u", "p", "p", "o", "r", "t">>
         -> <<"T", "e", "c", "h", " ", "S", "u", "p", "p", "o", "r", "t", " ", "&", " ", "S", "e", "r", "v", "i", "c", "e", "s">>
    [] cc = <<"M", "a", "r", "k", "e", "t", "i", "n", "g">>
         -> <<"M", "a", "r", "k", "e", "t", "i", "n", "g", " ", "&", " ", "G", "r", "o", "w", "t", "h", " ", "E", "x", "p", "e", "n", "s", "e", "s">>
    [] cc = <<"M", "a", "r", "k", "e", "t", "i", "n", "g", " ", "E", "x", "p", "e", "n", "s", "e", "s">>
         -> <<"M", "a", "r", "k", "e", "t", "i", "n", "g", " ", "&", " ", "G", "r", "o", "w", "t", "h", " ", "E", "x", "p", "e", "n", "s", "e", "s">>
    [] cc = <<"W", "a", "g", "e", "s">>
         -> <<"W", "a", "g", "e", "s", " ", "E", "x", "p", "e", "n", "s", "e", "s">>
    [] cc = <<"S", "a", "l", "a", "r", "i", "e", "s">>
         -> <<"W", "a", "g", "e", "s", " ", "E", "x", "p", "e", "n", "s", "e", "s">>
    [] cc = <<"S", "a", "l", "á", "r", "i", "o", "s">>
         -> <<"W", "a", "g", "e", "s", " ", "E", "x", "p", "e", "n", "s", "e", "s">>
    [] cc = <<"P", "a", "y", "r", "o", "l", "l">>
         -> <<"W", "a", "g", "e", "s", " ", "E", "x", "p", "e", "n", "s", "e", "s">>
    [] cc = <<"G", "o", "o", "g", "l", "e", " ", "P", "l", "a", "y">>
         -> <<"G", "o", "o", "g", "l", "e", " ", "P", "l", "a", "y", " ", "N", "e", "t", " ", "R", "e", "v", "e", "n", "u", "e">>
    [] cc = <<"G", "o", "o", "g", "l", "e", " ", "P", "l", "a", "y", " ", "R", "e", "v", "e", "n", "u", "e">>
         -> <<"G", "o", "o", "g", "l", "e", " ", "P", "l", "a", "y", " ", "N", "e", "t", " ", "R", "e", "v", "e", "n", "u", "e">>
    [] cc = <<"A", "p", "p", " ", "S", "t", "o", "r", "e">>
         -> <<"A", "p", "p", " ", "S", "t", "o", "r", "e", " ", "N", "e", "t", " ", "R", "e", "v", "e", "n", "u", "e">>
    [] cc = <<"A", "p", "p", " ", "S", "t", "o", "r", "e", " ", "R", "e", "v", "e", "n", "u", "e">>
         -> <<"A", "p", "p", " ", "S", "t", "o", "r", "e", " ", "N", "e", "t", " ", "R", "e", "v", "e", "n", "u", "e">>
    [] OTHER -> cc

\* the cost center cell of the only line of the file
FileCc(file) ==
  file.lines[1].cells[CHOOSE k \in 1..Len(file.header) : file.header[k] = CcCol]

\* the file with the canonical name in the cost center cell
WithCanonicalCc(file) ==
  [file EXCEPT !.lines[1].cells =
     [k \in 1..Len(file.header) |->
        IF file.header[k] = CcCol THEN CanonicalOf(file.lines[1].cells[k])
        ELSE file.lines[1].cells[k]]]

\* C21: under the default rule set a transaction whose cost center is a
\* naming variant of a mapped one is classified to the same P&L row as the
\* same transaction under the canonical cost center: the published table,
\* and so the row that shows the amount, is the same.
C21_VariantsNormalized ==
  pc = "done" =>
    LET p == process_upload(WithCanonicalCc(file_content))
        r == calculate_pnl(p.df, mappings, overrides, p.columns, NaT, NaT)
    IN  /\ headers = r.headers
        /\ rows = r.rows


\* the distinct months of the table
HistoryMonths == {df[k].Mes_Competencia : k \in 1..Len(df)} \ {NaT}

\* C22: the headers of calculate_pnl never hold more than 120 months; of a
\* history of more than 120 distinct months only the most recent 120 are
\* published.
C22_BoundedMonths ==
  pc = "done" =>
    /\ Len(headers) <= MonthLimit
    /\ Cardinality(HistoryMonths) > MonthLimit =>
         Range(headers) =
           {mo \in HistoryMonths :
              Cardinality({x \in HistoryMonths : x > mo}) < MonthLimit}


\* get_dashboard_data has returned the KPIs of a table with months
DashboardEnded == pc = "returned" /\ headers # <<>>

\* C23: the dashboard margins are on the scale of the margin rows of
\* calculate_pnl: gross_margin is year-to-date gross profit over year-to-date
\* revenue times 100, ebitda_margin year-to-date EBITDA over year-to-date
\* revenue times 100, both 0 when the revenue is not positive; total_revenue
\* and ebitda are the sums over the months of rows 1 and 13.  (Two quotients
\* over the same revenue are equal exactly when their numerators are.)
C23_DashboardMargins ==
  DashboardEnded =>
    LET revenue == SumRow(rows, 1, headers)
        scaled(x) == IF revenue > 0 THEN Percent(x, revenue) ELSE ZeroMargin
    IN  /\ response.kpis.total_revenue = revenue
        /\ response.kpis.ebitda = SumRow(rows, 13, headers)
        /\ response.kpis.gross_margin = scaled(SumRow(rows, 7, headers))
        /\ response.kpis.ebitda_margin = scaled(response.kpis.ebitda)


\* the line to which the matcher of calculate_pnl adds a transaction, 0 when
\* it adds it to none
MatcherLine(row) ==
  LET hit == MatchRow(SpecificByCc(mappings), GenericByCc(mappings), columns, row)
  IN  IF hit = <<>> \/ row.Mes_Competencia = NaT THEN 0
      ELSE LET p == IntOf(hit[1].linha_pl)
           IN  IF p.ok /\ p.v \in 1..MaxLine THEN p.v ELSE 0

\* the transactions calculate_pnl accumulated on the requested line, in the
\* requested month or in any
AssignedToLine ==
  SelectSeq(df, LAMBDA row :
    /\ MatcherLine(row) = drill_line_number
    /\ drill_month # NaT => row.Mes_Competencia = drill_month)

\* some rule targets the requested line
LineTargeted ==
  \E k \in 1..Len(mappings) :
    /\ IntOf(mappings[k].linha_pl).ok
    /\ IntOf(mappings[k].linha_pl).v = drill_line_number

\* C24: the transactions get_pnl_line_transactions collects for a line (and
\* month) are exactly those the matcher of calculate_pnl assigned to that
\* line (in that month, or in any month without a filter), and the total is
\* the value calculate_pnl accumulated for the line from them.
C24_DrillDownConsistent ==
  pc \in {"return", "returned"} =>
    /\ transactions = [k \in 1..Len(AssignedToLine) |-> Transaction(AssignedToLine[k])]
    /\ total = SumValor(transactions)

\* the call of get_pnl_line_transactions has ended
DrillEnded == pc \in {"returned", "raised"}

\* C30: get_pnl_line_transactions has exactly two error outcomes, 404 when no
\* data is loaded and 404 when no rule targets the requested line; every
\* other request returns a result whose total is the sum of the returned
\* transactions' values and whose count is their number.
C30_DrillDownOutcomes ==
  DrillEnded =>
    IF df = <<>>
    THEN pc = "raised" /\ error = HTTPException(404, "No data loaded")
    ELSE IF ~LineTargeted
    THEN pc = "raised" /\ error = HTTPException(404, "No mapping found for line")
    ELSE /\ pc = "returned"
         /\ response.total = SumValor(response.transactions)
         /\ response.count = Len(response.transactions)


\* the lines the derivation stores (line_values[100] .. line_values[113])
DerivedLines == 100..113

\* C25: within the accumulation and derivation of one run of calculate_pnl a
\* reserved derived line (100-113) is written only by the derivation: after
\* every transaction has been accumulated, and for the one month the step
\* derives, so each cell once - whatever the rule set, also when a rule
\* targets a reserved derived line.
C25_WriteDiscipline ==
  [][(/\ pc = "loop"
      /\ pc' = "loop"
      /\ \E l \in DerivedLines : line_values'[l] # line_values[l])
       => /\ i > Len(filtered_df)
          /\ j' = j + 1
          /\ \A l \in DerivedLines : \A m \in Months \ {month_strs[j]} :
               line_values'[l][m] = line_values[l][m]]_vars


\* the amount the accumulation loop netted on line l in month m: the sum of
\* the transactions of the month whose rule targets the line
Netted(l, m) ==
  SumVal({k \in 1..Len(filtered_df) :
            /\ filtered_df[k].Mes_Competencia = m
            /\ Hit(k) # <<>>
            /\ IntOf(Hit(k)[1].linha_pl) = [ok |-> TRUE, v |-> l]})

ExpenseRows == {9, 10, 11, 12}

\* C26: for every month cogs is the sum over the cost lines 43..48 of the
\* absolute value of the amount netted on the line, published on row 6 as
\* -cogs; row 6 and the expense rows 9-12 are <= 0 in every month, whatever
\* the signs of the transactions.
C26_CogsFormula ==
  Published =>
    \A m \in Range(headers) :
      /\ rows[6][m] = 0 - (Abs(Netted(43, m)) + Abs(Netted(44, m))
                           + Abs(Netted(45, m)) + Abs(Netted(46, m))
                           + Abs(Netted(47, m)) + Abs(Netted(48, m)))
      /\ \A r \in ExpenseRows \cup {6} : rows[r][m] <= 0

\* a month with a net credit on line 43 and a net debit on line 48, and a
\* month with a positive amount on an expense line
C26_Witness ==
  /\ Published
  /\ \E m \in Range(headers) :
       /\ Netted(43, m) > 0
       /\ Netted(48, m) < 0
       /\ rows[6][m] = Netted(48, m) - Netted(43, m)
  /\ \E m \in Range(headers) : Netted(56, m) > 0 /\ rows[9][m] < 0


\* C27: a rule whose target line is not an integer is skipped as if it were
\* absent: the P&L of calculate_pnl is the P&L computed with those rules
\* removed from the rule set, so a transaction a malformed rule matches first
\* is resolved by the next rule in precedence order.
C27_MalformedRuleAsAbsent ==
  pc = "done" =>
    LET r == calculate_pnl(df, CleanMappings, overrides, columns, start_date, end_date)
    IN  /\ headers = r.headers
        /\ rows = r.rows


\* the rules whose flag ativo is 'Sim'
ActiveMappings == SelectSeq(mappings, LAMBDA rule : rule.ativo = "Sim")

\* C28: a rule whose flag ativo is not 'Sim' is never entered as a match and
\* adds to no cell: the P&L is the one computed from the active rules alone.
C28_InactiveRulesUnused ==
  /\ pc = "loop" => (matched_mapping = <<>> \/ matched_mapping[1].ativo = "Sim")
  /\ pc = "done" =>
       LET r == calculate_pnl(df, ActiveMappings, overrides, columns, start_date, end_date)
       IN  /\ headers = r.headers
           /\ rows = r.rows


\* C29: without overrides the revenue rows of calculate_pnl add up in every
\* month: row 1 (gross operating revenue) is row 21 (Google Play) + row 22
\* (App Store) + row 3 (investment income), and row 2 is row 21 + row 22.
C29_RevenueRowsAddUp ==
  (Published /\ overrides = <<>>) =>
    \A m \in Range(headers) :
      /\ rows[1][m] = rows[21][m] + rows[22][m] + rows[3][m]
      /\ rows[2][m] = rows[21][m] + rows[22][m]

=============================================================================
